---------------------------- MODULE Spec2Model ----------------------------
(***************************************************************************)
(* Scoring / classification engine of the inspection server:               *)
(*   src/src/scoring/scoringV2_2.js  KPI classifier, score configuration,  *)
(*                                   scoring strategies A and B, badge     *)
(*   src/src/scoring/scoringV1.js    historical severity-points scoring    *)
(*   src/server.js                   buildPhotoPlanV1 (checklist build)    *)
(*                                   score configuration file and route    *)
(*   src/src/storage/storage.js      finding code to problem type          *)
(*   src/unnamed/part_000            capture routes (token, slot, photo)   *)
(*                                                                         *)
(* JavaScript strings are TLA+ strings; TLC reads Len, SubSeq and \o on    *)
(* them character by character.  Characters outside ASCII are written with *)
(* one ASCII stand-in each, so that lengths and substring relations are    *)
(* those of the source text:                                               *)
(*     n-tilde U+00F1 "~"   N-tilde U+00D1 "^"   combining tilde U+0303 "+"*)
(*     e-acute U+00E9 "&"   E-acute U+00C9 "*"                             *)
(*     i-acute U+00ED "!"   I-acute U+00CD "|"                             *)
(*     o-acute U+00F3 "@"   O-acute U+00D3 "#"   en dash U+2013 "-"        *)
(* null, undefined and "" in a string-valued field are all written "": the *)
(* code reads such fields only through (x || "") or !x.                    *)
(***************************************************************************)
EXTENDS Integers, Sequences, FiniteSets, TLC

VARIABLES
  scoreConfig,   \* the configuration object handed to computeScoringV2_2
  slots,         \* the case's slot records, in orderIndex order
  findings,      \* the normalized findings list (Strategy B, scoringV1)
  summary,       \* last result of computeScoringV2_2 / computeScoringV1, or NoResult
  cslot,         \* classifier call: the slot argument
  cmap,          \* classifier call: the slotKpiMap a caller supplied
  ccall,         \* classifier call: "none", "direct" or "scoring"
  ckpi,          \* classifier call: the value returned
  planInput,     \* buildPhotoPlanV1: its input
  plan,          \* buildPhotoPlanV1: the slots it returned (with kpiKey)
  rescored,      \* scoring-time classification of one planned slot
  normalized,    \* normalizeScoreConfig: the value last returned, or NotNormalized
  normCalls,     \* normalizeScoreConfig: calls made so far
  mcode,         \* mapFindingToProblemType: its argument
  mtype,         \* mapFindingToProblemType: the value returned, or NotMapped
  configFile,    \* server.js: what SCORE_CONFIG_PATH holds on disk
  reply,         \* server.js: outcome of the last load or admin request
  db,            \* capture routes: the captureToken, slot and photo tables
  reqs,          \* capture routes: the requests in flight, each with its locals
  clock          \* capture routes: Date.now()

vars == <<scoreConfig, slots, findings, summary,
          cslot, cmap, ccall, ckpi, planInput, plan, rescored,
          normalized, normCalls, mcode, mtype,
          configFile, reply, db, reqs, clock>>

scoringVars == <<scoreConfig, slots, findings, summary>>
classifyVars == <<cslot, cmap, ccall, ckpi>>
planVars == <<planInput, plan, rescored>>
normalizeVars == <<normalized, normCalls>>
mappingVars == <<mcode, mtype>>
serverVars == <<configFile, reply>>
captureVars == <<db, reqs, clock>>

(***************************************************************************)
(* JavaScript values.  A scalar read out of a parsed configuration is one  *)
(* of: a finite number, a string holding a decimal numeral, any other      *)
(* string, null; a missing property is absence from the record's DOMAIN.   *)
(* A computed number is a finite number or NaN.                            *)
(***************************************************************************)
Num(n) == [t |-> "num", v |-> n]
NumStr(n) == [t |-> "numstr", v |-> n]
Str == [t |-> "str", v |-> 0]
JsNull == [t |-> "null", v |-> 0]
NaN == [t |-> "nan", v |-> 0]
Undefined == [t |-> "undefined", v |-> 0]

\* obj[key], undefined when the property is missing
Get(obj, key) == IF key \in DOMAIN obj THEN obj[key] ELSE Undefined

\* Number(x)
Number(x) ==
  CASE x.t = "num" -> x
    [] x.t = "numstr" -> Num(x.v)
    [] x.t = "null" -> Num(0)
    [] OTHER -> NaN

\* Number.isFinite(x) for a computed number
isFinite(x) == x.t = "num"

\* x ?? y
Coalesce(x, y) == IF x.t \in {"null", "undefined"} THEN y ELSE x

\* A finite number that is not whole: the double whose shortest decimal
\* numeral is d, with v = Math.floor of it.  Whole numbers are Num(n).
Dec(d, floor) == [t |-> "num", v |-> floor, d |-> d]
IsFraction(x) == "d" \in DOMAIN x
DoubleName(x) == IF IsFraction(x) THEN x.d ELSE ToString(x.v)

\* IEEE-754 binary64 addition and subtraction, round to nearest even, on the
\* doubles that sums of the penalties 0.1, 0.2 and 0.3 run through
DoubleSum ==
     (<<"0", "0.1">> :> Dec("0.1", 0))
  @@ (<<"0", "0.2">> :> Dec("0.2", 0))
  @@ (<<"0", "0.3">> :> Dec("0.3", 0))
  @@ (<<"0", "0.30000000000000004">> :> Dec("0.30000000000000004", 0))
  @@ (<<"0", "0.4">> :> Dec("0.4", 0))
  @@ (<<"0", "0.5">> :> Dec("0.5", 0))
  @@ (<<"0", "0.6">> :> Dec("0.6", 0))
  @@ (<<"0", "0.6000000000000001">> :> Dec("0.6000000000000001", 0))
  @@ (<<"0", "0.7">> :> Dec("0.7", 0))
  @@ (<<"0", "0.7000000000000001">> :> Dec("0.7000000000000001", 0))
  @@ (<<"0", "0.7999999999999999">> :> Dec("0.7999999999999999", 0))
  @@ (<<"0", "0.8">> :> Dec("0.8", 0))
  @@ (<<"0", "0.8999999999999999">> :> Dec("0.8999999999999999", 0))
  @@ (<<"0", "0.9">> :> Dec("0.9", 0))
  @@ (<<"0", "0.9000000000000001">> :> Dec("0.9000000000000001", 0))
  @@ (<<"0", "0.9999999999999999">> :> Dec("0.9999999999999999", 0))
  @@ (<<"0", "1.0999999999999999">> :> Dec("1.0999999999999999", 1))
  @@ (<<"0", "1.1">> :> Dec("1.1", 1))
  @@ (<<"0", "1.2">> :> Dec("1.2", 1))
  @@ (<<"0.1", "0.1">> :> Dec("0.2", 0))
  @@ (<<"0.1", "0.2">> :> Dec("0.30000000000000004", 0))
  @@ (<<"0.1", "0.3">> :> Dec("0.4", 0))
  @@ (<<"0.1", "0.30000000000000004">> :> Dec("0.4", 0))
  @@ (<<"0.1", "0.4">> :> Dec("0.5", 0))
  @@ (<<"0.1", "0.5">> :> Dec("0.6", 0))
  @@ (<<"0.1", "0.6">> :> Dec("0.7", 0))
  @@ (<<"0.1", "0.6000000000000001">> :> Dec("0.7000000000000001", 0))
  @@ (<<"0.1", "0.7">> :> Dec("0.7999999999999999", 0))
  @@ (<<"0.1", "0.8">> :> Dec("0.9", 0))
  @@ (<<"0.1", "0.8999999999999999">> :> Dec("0.9999999999999999", 0))
  @@ (<<"0.2", "0.1">> :> Dec("0.30000000000000004", 0))
  @@ (<<"0.2", "0.2">> :> Dec("0.4", 0))
  @@ (<<"0.2", "0.3">> :> Dec("0.5", 0))
  @@ (<<"0.2", "0.30000000000000004">> :> Dec("0.5", 0))
  @@ (<<"0.2", "0.4">> :> Dec("0.6000000000000001", 0))
  @@ (<<"0.2", "0.5">> :> Dec("0.7", 0))
  @@ (<<"0.2", "0.6">> :> Dec("0.8", 0))
  @@ (<<"0.2", "0.6000000000000001">> :> Dec("0.8", 0))
  @@ (<<"0.2", "0.7">> :> Dec("0.8999999999999999", 0))
  @@ (<<"0.2", "0.8">> :> Num(1))
  @@ (<<"0.2", "0.8999999999999999">> :> Dec("1.0999999999999999", 1))
  @@ (<<"0.3", "0.1">> :> Dec("0.4", 0))
  @@ (<<"0.3", "0.2">> :> Dec("0.5", 0))
  @@ (<<"0.3", "0.3">> :> Dec("0.6", 0))
  @@ (<<"0.3", "0.30000000000000004">> :> Dec("0.6000000000000001", 0))
  @@ (<<"0.3", "0.4">> :> Dec("0.7", 0))
  @@ (<<"0.3", "0.5">> :> Dec("0.8", 0))
  @@ (<<"0.3", "0.6">> :> Dec("0.8999999999999999", 0))
  @@ (<<"0.3", "0.6000000000000001">> :> Dec("0.9000000000000001", 0))
  @@ (<<"0.3", "0.7">> :> Num(1))
  @@ (<<"0.3", "0.8">> :> Dec("1.1", 1))
  @@ (<<"0.3", "0.8999999999999999">> :> Dec("1.2", 1))
  @@ (<<"0.30000000000000004", "0.1">> :> Dec("0.4", 0))
  @@ (<<"0.30000000000000004", "0.2">> :> Dec("0.5", 0))
  @@ (<<"0.30000000000000004", "0.3">> :> Dec("0.6000000000000001", 0))
  @@ (<<"0.30000000000000004", "0.30000000000000004">> :> Dec("0.6000000000000001", 0))
  @@ (<<"0.30000000000000004", "0.4">> :> Dec("0.7000000000000001", 0))
  @@ (<<"0.30000000000000004", "0.5">> :> Dec("0.8", 0))
  @@ (<<"0.30000000000000004", "0.6">> :> Dec("0.9", 0))
  @@ (<<"0.4", "0.1">> :> Dec("0.5", 0))
  @@ (<<"0.4", "0.2">> :> Dec("0.6000000000000001", 0))
  @@ (<<"0.4", "0.3">> :> Dec("0.7", 0))
  @@ (<<"0.4", "0.30000000000000004">> :> Dec("0.7000000000000001", 0))
  @@ (<<"0.4", "0.4">> :> Dec("0.8", 0))
  @@ (<<"0.4", "0.5">> :> Dec("0.9", 0))
  @@ (<<"0.4", "0.6">> :> Num(1))
  @@ (<<"0.5", "0.1">> :> Dec("0.6", 0))
  @@ (<<"0.5", "0.2">> :> Dec("0.7", 0))
  @@ (<<"0.5", "0.3">> :> Dec("0.8", 0))
  @@ (<<"0.5", "0.30000000000000004">> :> Dec("0.8", 0))
  @@ (<<"0.5", "0.4">> :> Dec("0.9", 0))
  @@ (<<"0.5", "0.5">> :> Num(1))
  @@ (<<"0.5", "0.6">> :> Dec("1.1", 1))
  @@ (<<"0.6", "0.1">> :> Dec("0.7", 0))
  @@ (<<"0.6", "0.2">> :> Dec("0.8", 0))
  @@ (<<"0.6", "0.3">> :> Dec("0.8999999999999999", 0))
  @@ (<<"0.6", "0.30000000000000004">> :> Dec("0.9", 0))
  @@ (<<"0.6", "0.4">> :> Num(1))
  @@ (<<"0.6", "0.5">> :> Dec("1.1", 1))
  @@ (<<"0.6", "0.6">> :> Dec("1.2", 1))
  @@ (<<"0.6000000000000001", "0.1">> :> Dec("0.7000000000000001", 0))
  @@ (<<"0.6000000000000001", "0.2">> :> Dec("0.8", 0))
  @@ (<<"0.6000000000000001", "0.3">> :> Dec("0.9000000000000001", 0))
  @@ (<<"0.7", "0.1">> :> Dec("0.7999999999999999", 0))
  @@ (<<"0.7", "0.2">> :> Dec("0.8999999999999999", 0))
  @@ (<<"0.7", "0.3">> :> Num(1))
  @@ (<<"0.8", "0.1">> :> Dec("0.9", 0))
  @@ (<<"0.8", "0.2">> :> Num(1))
  @@ (<<"0.8", "0.3">> :> Dec("1.1", 1))
  @@ (<<"0.8999999999999999", "0.1">> :> Dec("0.9999999999999999", 0))
  @@ (<<"0.8999999999999999", "0.2">> :> Dec("1.0999999999999999", 1))
  @@ (<<"0.8999999999999999", "0.3">> :> Dec("1.2", 1))

DoubleDifference ==
     (<<"100", "0.1">> :> Dec("99.9", 99))
  @@ (<<"100", "0.2">> :> Dec("99.8", 99))
  @@ (<<"100", "0.3">> :> Dec("99.7", 99))
  @@ (<<"100", "0.30000000000000004">> :> Dec("99.7", 99))
  @@ (<<"100", "0.4">> :> Dec("99.6", 99))
  @@ (<<"100", "0.5">> :> Dec("99.5", 99))
  @@ (<<"100", "0.6">> :> Dec("99.4", 99))
  @@ (<<"100", "0.6000000000000001">> :> Dec("99.4", 99))
  @@ (<<"100", "0.7">> :> Dec("99.3", 99))
  @@ (<<"100", "0.7000000000000001">> :> Dec("99.3", 99))
  @@ (<<"100", "0.7999999999999999">> :> Dec("99.2", 99))
  @@ (<<"100", "0.8">> :> Dec("99.2", 99))
  @@ (<<"100", "0.8999999999999999">> :> Dec("99.1", 99))
  @@ (<<"100", "0.9">> :> Dec("99.1", 99))
  @@ (<<"100", "0.9000000000000001">> :> Dec("99.1", 99))
  @@ (<<"100", "0.9999999999999999">> :> Num(99))
  @@ (<<"100", "1">> :> Num(99))
  @@ (<<"100", "1.0999999999999999">> :> Dec("98.9", 98))
  @@ (<<"100", "1.1">> :> Dec("98.9", 98))
  @@ (<<"100", "1.2">> :> Dec("98.8", 98))

\* a + b, a - b on computed numbers
Plus(a, b) ==
  IF a.t = "num" /\ b.t = "num"
    THEN (IF IsFraction(a) \/ IsFraction(b)
            THEN DoubleSum[<<DoubleName(a), DoubleName(b)>>]
            ELSE Num(a.v + b.v))
    ELSE NaN
Minus(a, b) ==
  IF a.t = "num" /\ b.t = "num"
    THEN (IF IsFraction(a) \/ IsFraction(b)
            THEN DoubleDifference[<<DoubleName(a), DoubleName(b)>>]
            ELSE Num(a.v - b.v))
    ELSE NaN

\* Math.min, Math.max: NaN when either argument is NaN (of two numbers with
\* the same floor the whole one is the smaller; this module never compares
\* two fractions)
MathMin(a, b) ==
  IF a.t = "num" /\ b.t = "num"
    THEN (IF a.v < b.v \/ (a.v = b.v /\ ~IsFraction(a)) THEN a ELSE b)
    ELSE NaN
MathMax(a, b) ==
  IF a.t = "num" /\ b.t = "num"
    THEN (IF a.v > b.v \/ (a.v = b.v /\ ~IsFraction(b)) THEN a ELSE b)
    ELSE NaN

\* a < b after ToNumber on both sides: false when either is NaN
LessThan(a, b) ==
  LET x == Number(a)
      y == Number(b)
  IN /\ x.t = "num" /\ y.t = "num"
     /\ (x.v < y.v \/ (x.v = y.v /\ ~IsFraction(x) /\ IsFraction(y)))

(***************************************************************************)
(* String.prototype.toLowerCase / toUpperCase / includes / startsWith      *)
(***************************************************************************)
UpperChars == "ABCDEFGHIJKLMNOPQRSTUVWXYZ^*|#"
LowerChars == "abcdefghijklmnopqrstuvwxyz~&!@"

CharAt(s, i) == SubSeq(s, i, i)

\* the case mappings as tables over the cased characters
LowerOf == [c \in {CharAt(UpperChars, i) : i \in 1..Len(UpperChars)} |->
              CharAt(LowerChars, CHOOSE i \in 1..Len(UpperChars) : CharAt(UpperChars, i) = c)]
UpperOf == [c \in {CharAt(LowerChars, i) : i \in 1..Len(LowerChars)} |->
              CharAt(UpperChars, CHOOSE i \in 1..Len(LowerChars) : CharAt(LowerChars, i) = c)]

lowerChar(c) == IF c \in DOMAIN LowerOf THEN LowerOf[c] ELSE c

upperChar(c) == IF c \in DOMAIN UpperOf THEN UpperOf[c] ELSE c

RECURSIVE toLowerCase(_)
toLowerCase(s) ==
  IF s = "" THEN "" ELSE lowerChar(CharAt(s, 1)) \o toLowerCase(SubSeq(s, 2, Len(s)))

RECURSIVE toUpperCase(_)
toUpperCase(s) ==
  IF s = "" THEN "" ELSE upperChar(CharAt(s, 1)) \o toUpperCase(SubSeq(s, 2, Len(s)))

includes(s, w) ==
  \E i \in 0..(Len(s) - Len(w)) : SubSeq(s, i + 1, i + Len(w)) = w

startsWith(s, w) == Len(w) <= Len(s) /\ SubSeq(s, 1, Len(w)) = w

(***************************************************************************)
(* DEFAULT_SCORE_CONFIG (display texts are written without diacritics: no  *)
(* operation inspects their characters)                                    *)
(***************************************************************************)
DEFAULT_kpis ==
  [ MUROS_PINTURA |-> [low |-> Num(5), medium |-> Num(15), high |-> Num(30)],
    HUMEDAD |-> [low |-> Num(5), medium |-> Num(15), high |-> Num(30)],
    PISOS |-> [low |-> Num(5), medium |-> Num(15), high |-> Num(30)],
    SANITARIOS |-> [low |-> Num(5), medium |-> Num(15), high |-> Num(30)],
    ELECTRICIDAD |-> [low |-> Num(5), medium |-> Num(15), high |-> Num(30)],
    VENTANAS_CERRAMIENTOS |-> [low |-> Num(5), medium |-> Num(15), high |-> Num(30)],
    PUERTAS_HERRAJES |-> [low |-> Num(5), medium |-> Num(15), high |-> Num(30)],
    MOBILIARIO_FIJO |-> [low |-> Num(5), medium |-> Num(15), high |-> Num(30)] ]

DEFAULT_slotKpiMap ==
  [ BATHROOM_1_SHOWER |-> "SANITARIOS",
    BATHROOM_1_SINK |-> "SANITARIOS",
    BATHROOM_1_SINK_PIPES |-> "SANITARIOS",
    BATHROOM_1_WC |-> "SANITARIOS",
    BATHROOM_1_WC_PIPES |-> "SANITARIOS",
    BATHROOM_1_CEILING |-> "HUMEDAD",
    BATHROOM_1_OUTLETS |-> "ELECTRICIDAD",
    BATHROOM_2_SHOWER |-> "SANITARIOS",
    BATHROOM_2_SINK |-> "SANITARIOS",
    BATHROOM_2_SINK_PIPES |-> "SANITARIOS",
    BATHROOM_2_WC |-> "SANITARIOS",
    BATHROOM_2_WC_PIPES |-> "SANITARIOS",
    BATHROOM_2_CEILING |-> "HUMEDAD",
    BATHROOM_2_OUTLETS |-> "ELECTRICIDAD",
    KITCHEN_UNDER_SINK |-> "HUMEDAD",
    KITCHEN_SINK_WALL |-> "HUMEDAD",
    KITCHEN_COUNTERTOP |-> "MOBILIARIO_FIJO",
    KITCHEN_CABINETS |-> "MOBILIARIO_FIJO",
    KITCHEN_OUTLETS |-> "ELECTRICIDAD",
    KITCHEN_WINDOW |-> "VENTANAS_CERRAMIENTOS",
    LIVING_WALLS |-> "MUROS_PINTURA",
    LIVING_CEILING |-> "MUROS_PINTURA",
    LIVING_FLOOR |-> "PISOS",
    LIVING_WINDOWS |-> "VENTANAS_CERRAMIENTOS",
    LIVING_SWITCHES |-> "ELECTRICIDAD",
    BEDROOM_1_WALLS |-> "MUROS_PINTURA",
    BEDROOM_1_FLOOR |-> "PISOS",
    BEDROOM_1_CLOSET |-> "MOBILIARIO_FIJO",
    BEDROOM_1_WINDOWS |-> "VENTANAS_CERRAMIENTOS",
    BEDROOM_2_WALLS |-> "MUROS_PINTURA",
    BEDROOM_2_FLOOR |-> "PISOS",
    BEDROOM_2_CLOSET |-> "MOBILIARIO_FIJO",
    BEDROOM_2_WINDOWS |-> "VENTANAS_CERRAMIENTOS",
    BEDROOM_3_WALLS |-> "MUROS_PINTURA",
    BEDROOM_3_FLOOR |-> "PISOS",
    BEDROOM_3_CLOSET |-> "MOBILIARIO_FIJO",
    BEDROOM_3_WINDOWS |-> "VENTANAS_CERRAMIENTOS",
    LAUNDRY_WALLS_FLOOR |-> "HUMEDAD",
    ELECTRICAL_PANEL |-> "ELECTRICIDAD" ]

DEFAULT_messages ==
  [ MUROS_PINTURA |->
      [ low |-> "Se observan imperfecciones menores en muros o pintura del area inspeccionada.",
        medium |-> "Se observan deterioros visibles en muros o pintura del area inspeccionada.",
        high |-> "Se observan deterioros relevantes en muros o pintura del area inspeccionada." ],
    HUMEDAD |->
      [ low |-> "Se observan indicios leves de humedad superficial en el area inspeccionada.",
        medium |-> "Se observan senales visibles de humedad en el area inspeccionada.",
        high |-> "Se observan evidencias visibles de humedad extendida en el area inspeccionada." ],
    PISOS |->
      [ low |-> "Se observan marcas o desgaste leve en el piso del area inspeccionada.",
        medium |-> "Se observan desgaste o danos visibles en el piso del area inspeccionada.",
        high |-> "Se observan danos visibles relevantes en el piso del area inspeccionada." ],
    SANITARIOS |->
      [ low |-> "Se observan condiciones visibles menores en artefactos sanitarios del area inspeccionada.",
        medium |-> "Se observan condiciones visibles en artefactos sanitarios del area inspeccionada.",
        high |-> "Se observan condiciones visibles relevantes en artefactos sanitarios del area inspeccionada." ],
    ELECTRICIDAD |->
      [ low |-> "Se observan condiciones visibles menores en elementos electricos del area inspeccionada.",
        medium |-> "Se observan condiciones visibles en elementos electricos del area inspeccionada.",
        high |-> "Se observan condiciones visibles relevantes en elementos electricos del area inspeccionada." ],
    VENTANAS_CERRAMIENTOS |->
      [ low |-> "Se observan condiciones visibles menores en ventanas o cerramientos del area inspeccionada.",
        medium |-> "Se observan condiciones visibles en ventanas o cerramientos del area inspeccionada.",
        high |-> "Se observan condiciones visibles relevantes en ventanas o cerramientos del area inspeccionada." ],
    PUERTAS_HERRAJES |->
      [ low |-> "Se observan condiciones visibles menores en puertas o herrajes del area inspeccionada.",
        medium |-> "Se observan condiciones visibles en puertas o herrajes del area inspeccionada.",
        high |-> "Se observan condiciones visibles relevantes en puertas o herrajes del area inspeccionada." ],
    MOBILIARIO_FIJO |->
      [ low |-> "Se observan condiciones visibles menores en mobiliario fijo del area inspeccionada.",
        medium |-> "Se observan condiciones visibles en mobiliario fijo del area inspeccionada.",
        high |-> "Se observan condiciones visibles relevantes en mobiliario fijo del area inspeccionada." ] ]

DEFAULT_recommendations ==
  [ GREEN |-> "Se recomienda mantener seguimiento y control preventivo.",
    YELLOW |-> "Se recomienda revisar y monitorear el estado observado.",
    RED |-> "Se recomienda una revision tecnica detallada del hallazgo." ]

KW_HUMEDAD == <<"humedad", "moho", "filtr", "water", "mold">>
KW_MUROS_PINTURA == <<"muros", "pintura", "pared", "cielo", "paint">>
KW_PISOS == <<"piso", "pisos", "floor">>
KW_SANITARIOS == <<"wc", "lavamanos", "lavaplatos", "grifer", "ducha", "tina", "sanitario", "sifon", "ca~er", "ban+o", "ba~o">>
KW_ELECTRICIDAD == <<"electrical", "tablero", "enchufe", "interruptor">>
KW_VENTANAS_CERRAMIENTOS == <<"ventana", "vidrio", "marco", "cerramiento">>
KW_PUERTAS_HERRAJES == <<"puerta", "cerradura", "bisagra", "manilla", "herraje">>
KW_MOBILIARIO_FIJO == <<"mueble", "mobiliario", "closet", "cl@set", "cl@sets", "gabinete", "cajon", "alacena">>

\* the two thresholds exchanged; C16 tells it from DEFAULT_badge
DEFAULT_badge_Exchanged == [yellowFrom |-> Num(85), greenFrom |-> Num(60)]

DEFAULT_badge == [yellowFrom |-> Num(60), greenFrom |-> Num(85)]

DEFAULT_SCORE_CONFIG ==
  [ kpis |-> DEFAULT_kpis,
    slotKpiMap |-> DEFAULT_slotKpiMap,
    messages |-> DEFAULT_messages,
    recommendations |-> DEFAULT_recommendations,
    badge |-> DEFAULT_badge ]

(***************************************************************************)
(* Objects are records.  A value found where an object is expected but     *)
(* which is not one (null, a number, a string) is NonObject(truthy).       *)
(***************************************************************************)
NonObject(truthy) == [nonObject |-> TRUE, truthy |-> truthy]
IsObject(x) == "nonObject" \notin DOMAIN x
Truthy(x) == IF IsObject(x) THEN TRUE ELSE x.truthy
EmptyObject == [x \in {} |-> ""]

\* obj[key] || {} for an object-valued property
GetObject(obj, key) ==
  IF key \in DOMAIN obj /\ IsObject(obj[key]) THEN obj[key] ELSE EmptyObject

\* String(obj[key] || fallback) for a string-valued property
GetString(obj, key, fallback) ==
  IF key \in DOMAIN obj /\ obj[key] # "" THEN obj[key] ELSE fallback

\* the value kept as written when it reads as a finite number; C13 tells it
\* from FiniteOr
FiniteOr_Unconverted(x, fallback) == IF isFinite(Number(x)) THEN x ELSE fallback

\* Number.isFinite(Number(x)) ? Number(x) : fallback
FiniteOr(x, fallback) == IF isFinite(Number(x)) THEN Number(x) ELSE fallback

\* each entry turned round, the KPI as key and the slot code as value; C12
\* tells it from UpperCasedEntries
UpperCasedEntries_Swapped(m) ==
  LET entries == {<<toUpperCase(m[k]), toUpperCase(k)>> : k \in DOMAIN m}
  IN [K \in {e[1] : e \in entries} |-> (CHOOSE e \in entries : e[1] = K)[2]]

\* the entries left as the caller wrote them; C15 tells it from UpperCasedEntries
UpperCasedEntries_AsGiven(m) == m

\* the entries of a caller's slotKpiMap with key and value upper-cased
\* (callers' maps are enumerated without two keys equal up to letter case)
UpperCasedEntries(m) ==
  LET entries == {<<toUpperCase(k), toUpperCase(m[k])>> : k \in DOMAIN m}
  IN [K \in {e[1] : e \in entries} |-> (CHOOSE e \in entries : e[1] = K)[2]]

normalizeScoreConfig(input) ==
  LET base == DEFAULT_SCORE_CONFIG
  IN IF ~IsObject(input) THEN base
     ELSE
       LET next == input @@ base
           objOr(f) == IF IsObject(next[f]) THEN next[f] ELSE base[f]
           kpis0 == objOr("kpis")
           messages0 == objOr("messages")
           recs0 == objOr("recommendations")
           map0 == objOr("slotKpiMap")
           kpiKeys == DOMAIN base.kpis
           sevs == {"low", "medium", "high"}
           kpis1 ==
             [k \in DOMAIN kpis0 \cup kpiKeys |->
                IF k \in kpiKeys
                  THEN [s \in sevs |-> FiniteOr(Get(GetObject(kpis0, k), s), base.kpis[k][s])]
                  ELSE kpis0[k]]
           messages1 ==
             [k \in DOMAIN messages0 \cup kpiKeys |->
                IF k \in kpiKeys
                  THEN [s \in sevs |-> GetString(GetObject(messages0, k), s, base.messages[k][s])]
                  ELSE messages0[k]]
           recs1 ==
             [b \in {"GREEN", "YELLOW", "RED"} |-> GetString(recs0, b, base.recommendations[b])]
           badge0 == IF IsObject(next.badge) THEN next.badge ELSE EmptyObject
           badge1 ==
             [ yellowFrom |-> FiniteOr(Get(badge0, "yellowFrom"), base.badge.yellowFrom),
               greenFrom |-> FiniteOr(Get(badge0, "greenFrom"), base.badge.greenFrom) ]
           map1 == UpperCasedEntries(map0) @@ base.slotKpiMap
       IN [next EXCEPT !.kpis = kpis1, !.messages = messages1,
                       !.recommendations = recs1, !.badge = badge1,
                       !.slotKpiMap = map1]

\* The caller's object once normalizeScoreConfig(input) has returned.  next is
\* {...base, ...input}: a new object whose kpis and messages are the very
\* objects of input when input has them, and the loop over kpiKeys assigns
\* next.kpis[k] and next.messages[k], so it writes into the caller's objects.
\* recommendations, badge and slotKpiMap are rebuilt as new objects.
configAfterNormalize(input) ==
  IF ~IsObject(input) THEN input
  ELSE
    LET out == normalizeScoreConfig(input)
    IN [f \in DOMAIN input |->
          IF f = "kpis" /\ IsObject(input[f]) THEN out.kpis
          ELSE IF f = "messages" /\ IsObject(input[f]) THEN out.messages
          ELSE input[f]]

(***************************************************************************)
(* classifyKpiFromSlot(slot, slotKpiMap); null is written ""               *)
(***************************************************************************)
\* hasAny reading the title only; C8 tells it from hasAny
hasAny_TitleOnly(words, title, code) ==
  \E i \in 1..Len(words) : includes(title, words[i])

hasAny(words, title, code) ==
  \E i \in 1..Len(words) : includes(title, words[i]) \/ includes(code, words[i])

\* the keyword chain, on the lower-cased slotCode, title and message
keywordFallback(code, title, msg) ==
  IF msg # "" /\ \E i \in 1..Len(KW_HUMEDAD) : includes(msg, KW_HUMEDAD[i])
    THEN "HUMEDAD"
  ELSE IF hasAny(KW_MUROS_PINTURA, title, code) THEN "MUROS_PINTURA"
  ELSE IF hasAny(KW_PISOS, title, code) THEN "PISOS"
  ELSE IF hasAny(KW_SANITARIOS, title, code) THEN "SANITARIOS"
  ELSE IF hasAny(KW_ELECTRICIDAD, title, code) THEN "ELECTRICIDAD"
  ELSE IF hasAny(KW_VENTANAS_CERRAMIENTOS, title, code) THEN "VENTANAS_CERRAMIENTOS"
  ELSE IF hasAny(KW_PUERTAS_HERRAJES, title, code) THEN "PUERTAS_HERRAJES"
  ELSE IF hasAny(KW_MOBILIARIO_FIJO, title, code) THEN "MOBILIARIO_FIJO"
  ELSE ""

\* the keyword chain alone, the map ignored; C10 tells it from classifyKpiFromSlot
classifyKpiFromSlot_NoOverride(slot, slotKpiMap) ==
  keywordFallback(toLowerCase(slot.slotCode), toLowerCase(slot.title),
                  toLowerCase(slot.message))

classifyKpiFromSlot(slot, slotKpiMap) ==
  LET rawCode == slot.slotCode
      mapKey == toUpperCase(IF rawCode \in DOMAIN slotKpiMap THEN slotKpiMap[rawCode] ELSE "")
  IN IF mapKey # "" THEN mapKey
     ELSE keywordFallback(toLowerCase(rawCode), toLowerCase(slot.title),
                          toLowerCase(slot.message))

\* a call that passes no slotKpiMap: slotKpiMap?.[rawCode] is undefined
NoMap == EmptyObject

(***************************************************************************)
(* Scoring, scoringV2_2.js.  A result's byGroup is the Map's values in     *)
(* insertion order.                                                        *)
(***************************************************************************)
KpiTitles ==
  [ MUROS_PINTURA |-> "Muros y pintura",
    HUMEDAD |-> "Humedad visible",
    PISOS |-> "Pisos",
    SANITARIOS |-> "Sanitarios",
    ELECTRICIDAD |-> "Electricidad visible",
    VENTANAS_CERRAMIENTOS |-> "Ventanas y cerramientos",
    PUERTAS_HERRAJES |-> "Puertas y herrajes",
    MOBILIARIO_FIJO |-> "Mobiliario fijo" ]

kpiTitleFromKey(key) ==
  IF key \in DOMAIN KpiTitles THEN KpiTitles[key]
  ELSE CharAt(key, 1) \o toLowerCase(SubSeq(key, 2, Len(key)))

\* scoreConfig?.badge?.[name] ?? DEFAULT_SCORE_CONFIG.badge[name]
badgeThreshold(cfg, name) ==
  Coalesce(IF IsObject(cfg) /\ "badge" \in DOMAIN cfg /\ IsObject(cfg.badge)
             THEN Get(cfg.badge, name) ELSE Undefined,
           DEFAULT_SCORE_CONFIG.badge[name])

\* the thresholds fixed at the defaults; C5 tells it from badgeFromScore
badgeFromScore_Defaults(score, cfg) ==
  IF LessThan(score, DEFAULT_SCORE_CONFIG.badge.yellowFrom) THEN "RED"
  ELSE IF LessThan(score, DEFAULT_SCORE_CONFIG.badge.greenFrom) THEN "YELLOW"
  ELSE "GREEN"

badgeFromScore(score, cfg) ==
  IF LessThan(score, badgeThreshold(cfg, "yellowFrom")) THEN "RED"
  ELSE IF LessThan(score, badgeThreshold(cfg, "greenFrom")) THEN "YELLOW"
  ELSE "GREEN"

\* Math.max(0, Math.min(100, n))
clamp(n) == MathMax(Num(0), MathMin(Num(100), n))

\* a row appended for every call, none accumulated; C25 tells it from addToGroup
addToGroup_RowPerCall(byGroup, key, title, amount) ==
  Append(byGroup, [groupKey |-> key, title |-> title, impact |-> amount])

\* the impact assigned where it is accumulated; C26 tells it from addToGroup
addToGroup_Overwrite(byGroup, key, title, amount) ==
  LET rows == IF \E i \in 1..Len(byGroup) : byGroup[i].groupKey = key
                THEN byGroup
                ELSE Append(byGroup, [groupKey |-> key, title |-> title, impact |-> Num(0)])
  IN [i \in 1..Len(rows) |->
        IF rows[i].groupKey = key THEN [rows[i] EXCEPT !.impact = amount] ELSE rows[i]]

\* if (!byGroup.has(key)) byGroup.set(key, {groupKey, title, impact: 0});
\* byGroup.get(key).impact += amount
addToGroup(byGroup, key, title, amount) ==
  LET rows == IF \E i \in 1..Len(byGroup) : byGroup[i].groupKey = key
                THEN byGroup
                ELSE Append(byGroup, [groupKey |-> key, title |-> title, impact |-> Num(0)])
  IN [i \in 1..Len(rows) |->
        IF rows[i].groupKey = key
          THEN [rows[i] EXCEPT !.impact = Plus(rows[i].impact, amount)]
          ELSE rows[i]]

\* .map(g => ({...g, scoreIfOnlyGroup: clamp(100 - g.impact)}))
withScoreIfOnlyGroup(byGroup) ==
  [i \in 1..Len(byGroup) |->
     [groupKey |-> byGroup[i].groupKey, title |-> byGroup[i].title,
      impact |-> byGroup[i].impact,
      scoreIfOnlyGroup |-> clamp(Minus(Num(100), byGroup[i].impact))]]

\* one iteration of slots.forEach in computeScoringByKpi
kpiStep(s, cfg, acc) ==
  IF s.severity = "" THEN acc
  ELSE
    LET key == classifyKpiFromSlot(s, cfg.slotKpiMap)
    IN IF key = "" \/ key \notin DOMAIN cfg.kpis \/ ~Truthy(cfg.kpis[key]) THEN acc
       ELSE
         LET sev == toLowerCase(s.severity)
             penalty == Number(Coalesce(Get(GetObject(cfg.kpis, key), sev), Num(0)))
         IN [total |-> Plus(acc.total, penalty),
             byGroup |-> addToGroup(acc.byGroup, key, kpiTitleFromKey(key), penalty)]

\* the loop stopped after the first slot; C2 tells it from kpiLoop
kpiLoop_FirstOnly(ss, cfg, acc) ==
  IF ss = <<>> THEN acc ELSE kpiStep(Head(ss), cfg, acc)

RECURSIVE kpiLoop(_, _, _)
kpiLoop(ss, cfg, acc) ==
  IF ss = <<>> THEN acc ELSE kpiLoop(Tail(ss), cfg, kpiStep(Head(ss), cfg, acc))

computeScoringByKpi(ss, config) ==
  LET cfg == normalizeScoreConfig(config)
      done == kpiLoop(ss, cfg, [total |-> Num(0), byGroup |-> <<>>])
      score == clamp(Minus(Num(100), done.total))
  IN [ scoreVersion |-> "SCORING_V2_2_KPI",
       score |-> score,
       badge |-> badgeFromScore(score, cfg),
       totalImpact |-> done.total,
       byGroup |-> withScoreIfOnlyGroup(done.byGroup) ]

\* SEVERITY_FACTOR_V22[sev] ?? 1.0, in tenths
severityFactorTenths(sev) ==
  CASE sev = "low" -> 10
    [] sev = "medium" -> 13
    [] sev = "high" -> 15
    [] OTHER -> 10

\* PROBLEM_BASE_V22[problemType] ?? 0
PROBLEM_BASE_V22 ==
  [ HUMIDITY_FILTRATION |-> 20,
    PIPE_LEAK_CORROSION |-> 25,
    ELECTRICAL_RISK |-> 35,
    STRUCTURAL_CRACK |-> 40,
    MATERIAL_DETACHMENT |-> 30,
    SANITARY_RISK |-> 25,
    COSMETIC |-> 5 ]

problemBase(problemType) ==
  IF problemType \in DOMAIN PROBLEM_BASE_V22 THEN PROBLEM_BASE_V22[problemType] ELSE 0

\* a wet area for any group key that has BATH somewhere in it; C18 tells it
\* from deriveContextFlags
deriveContextFlags_BathAnywhere(slot) ==
  LET g == toUpperCase(slot.groupKey)
      c == toUpperCase(slot.slotCode)
  IN [ isWetArea |-> includes(g, "BATH") \/ g = "KITCHEN" \/ g = "LAUNDRY",
       isElectricalContext |-> g = "ELECTRICAL" \/ includes(c, "ELECTRICAL") \/ includes(c, "PANEL"),
       isStructuralContext |-> g = "STRUCTURE" \/ includes(c, "STRUCTURE") ]

deriveContextFlags(slot) ==
  LET g == toUpperCase(slot.groupKey)
      c == toUpperCase(slot.slotCode)
  IN [ isWetArea |-> startsWith(g, "BATH") \/ g = "KITCHEN" \/ g = "LAUNDRY",
       isElectricalContext |-> g = "ELECTRICAL" \/ includes(c, "ELECTRICAL") \/ includes(c, "PANEL"),
       isStructuralContext |-> g = "STRUCTURE" \/ includes(c, "STRUCTURE") ]

contextPenalty(problemType, flags) ==
  IF problemType = "ELECTRICAL_RISK" /\ flags.isWetArea THEN 15
  ELSE IF problemType = "HUMIDITY_FILTRATION" /\ flags.isElectricalContext THEN 15
  ELSE 0

\* Math.floor in place of Math.round; C3 tells it from roundTenths
roundTenths_Floor(tenths) == tenths \div 10

\* Math.round(tenths / 10): the nearest integer, a half rounded up
roundTenths(tenths) == (tenths + 5) \div 10

\* slotById.get(id): the last slot of the list with that id, if any
hasSlot(ss, id) == \E i \in 1..Len(ss) : ss[i].id = id
slotById(ss, id) ==
  ss[CHOOSE i \in 1..Len(ss) : ss[i].id = id /\ \A j \in (i + 1)..Len(ss) : ss[j].id # id]

\* the iteration with the impact weighted by the finding's confidence (in
\* hundredths, 1.0 when there is none); C22 tells it from findingStep
findingStep_ByConfidence(f, ss, acc) ==
  IF ~hasSlot(ss, f.slotId) THEN acc
  ELSE
    LET slot == slotById(ss, f.slotId)
        sevFactor == severityFactorTenths(toLowerCase(f.severity))
        base == problemBase(f.problemType)
        weight == IF "confidence" \in DOMAIN f /\ f.confidence.t = "num"
                    THEN f.confidence.v ELSE 100
    IN IF base = 0 THEN acc
       ELSE
         LET ctx == contextPenalty(f.problemType, deriveContextFlags(slot))
             impact == roundTenths((base * sevFactor * weight) \div 100 + ctx * 10)
             gk == toUpperCase(IF slot.groupKey = "" THEN "OTHER" ELSE slot.groupKey)
             gt == IF slot.groupTitle = "" THEN "Otros" ELSE slot.groupTitle
         IN [total |-> Plus(acc.total, Num(impact)),
             byGroup |-> addToGroup(acc.byGroup, gk, gt, Num(impact))]

\* the iteration without "if (!base) continue": a finding with no base is
\* entered with what is left of its impact; C17 tells it from findingStep
findingStep_NoBaseCheck(f, ss, acc) ==
  IF ~hasSlot(ss, f.slotId) THEN acc
  ELSE
    LET slot == slotById(ss, f.slotId)
        sevFactor == severityFactorTenths(toLowerCase(f.severity))
        base == problemBase(f.problemType)
        ctx == contextPenalty(f.problemType, deriveContextFlags(slot))
        impact == roundTenths(base * sevFactor + ctx * 10)
        gk == toUpperCase(IF slot.groupKey = "" THEN "OTHER" ELSE slot.groupKey)
        gt == IF slot.groupTitle = "" THEN "Otros" ELSE slot.groupTitle
    IN [total |-> Plus(acc.total, Num(impact)),
        byGroup |-> addToGroup(acc.byGroup, gk, gt, Num(impact))]

\* one iteration of the loop over findingsNormalized
findingStep(f, ss, acc) ==
  IF ~hasSlot(ss, f.slotId) THEN acc
  ELSE
    LET slot == slotById(ss, f.slotId)
        sevFactor == severityFactorTenths(toLowerCase(f.severity))
        base == problemBase(f.problemType)
    IN IF base = 0 THEN acc
       ELSE
         LET ctx == contextPenalty(f.problemType, deriveContextFlags(slot))
             impact == roundTenths(base * sevFactor + ctx * 10)
             gk == toUpperCase(IF slot.groupKey = "" THEN "OTHER" ELSE slot.groupKey)
             gt == IF slot.groupTitle = "" THEN "Otros" ELSE slot.groupTitle
         IN [total |-> Plus(acc.total, Num(impact)),
             byGroup |-> addToGroup(acc.byGroup, gk, gt, Num(impact))]

RECURSIVE findingLoop(_, _, _)
findingLoop(fs, ss, acc) ==
  IF fs = <<>> THEN acc ELSE findingLoop(Tail(fs), ss, findingStep(Head(fs), ss, acc))

\* Strategy A whatever the configuration; C4 tells it from hasKpis
hasKpis_Always(config) == TRUE

\* scoreConfig?.kpis
hasKpis(config) ==
  IsObject(config) /\ "kpis" \in DOMAIN config /\ Truthy(config.kpis)

\* the caller's configuration once computeScoringV2_2 has returned: Strategy A
\* hands it to normalizeScoreConfig, Strategy B only reads it
configAfterScoring(config) ==
  IF hasKpis(config) THEN configAfterNormalize(config) ELSE config

computeScoringV2_2(fs, ss, config) ==
  IF hasKpis(config) THEN computeScoringByKpi(ss, config)
  ELSE
    LET done == findingLoop(fs, ss, [total |-> Num(0), byGroup |-> <<>>])
        score == clamp(Minus(Num(100), done.total))
    IN [ scoreVersion |-> "SCORING_V2_2",
         score |-> score,
         badge |-> badgeFromScore(score, config),
         totalImpact |-> done.total,
         byGroup |-> withScoreIfOnlyGroup(done.byGroup) ]

(***************************************************************************)
(* scoringV1.js                                                            *)
(***************************************************************************)
SEVERITY_POINTS == [low |-> 5, medium |-> 15, high |-> 35]

\* GROUP_MULTIPLIER, in tenths
GROUP_MULTIPLIER ==
  [ BATH_MAIN |-> 15, BATH_SECONDARY |-> 15, KITCHEN |-> 13, LAUNDRY |-> 13,
    ELECTRICAL |-> 17, STRUCTURE |-> 14, EXTERIOR |-> 12, ATTIC |-> 12 ]
  @@ ("OTHER" :> 10)

\* the badge from the thresholds alone; C23 tells it from badgeFromScoreV1
badgeFromScoreV1_ThresholdsOnly(score, hasHigh, hasMedium) ==
  IF score < 60 THEN "RED"
  ELSE IF score < 85 THEN "YELLOW"
  ELSE "GREEN"

badgeFromScoreV1(score, hasHigh, hasMedium) ==
  IF hasHigh \/ score < 60 THEN "RED"
  ELSE IF hasMedium \/ score < 85 THEN "YELLOW"
  ELSE "GREEN"

\* Math.max, Math.min on integers
Max(a, b) == IF a >= b THEN a ELSE b
Min(a, b) == IF a <= b THEN a ELSE b

clampScore(n) == Max(0, Min(100, n))

\* one iteration of the loop over findings in computeScoringV1
v1Step(f, ss, acc) ==
  LET found == hasSlot(ss, f.slotId)
      groupKey == IF found /\ slotById(ss, f.slotId).groupKey # ""
                    THEN slotById(ss, f.slotId).groupKey ELSE "OTHER"
      groupTitle == IF found /\ slotById(ss, f.slotId).groupTitle # ""
                      THEN slotById(ss, f.slotId).groupTitle ELSE "Otros"
      mult == IF groupKey \in DOMAIN GROUP_MULTIPLIER THEN GROUP_MULTIPLIER[groupKey] ELSE 10
      sev == toLowerCase(f.severity)
      base == IF sev \in DOMAIN SEVERITY_POINTS THEN SEVERITY_POINTS[sev] ELSE 0
      impact == roundTenths(base * mult)
      rows == IF \E i \in 1..Len(acc.groupAgg) : acc.groupAgg[i].groupKey = groupKey
                THEN acc.groupAgg
                ELSE Append(acc.groupAgg,
                            [groupKey |-> groupKey, title |-> groupTitle, scoreImpact |-> 0,
                             hasHigh |-> FALSE, hasMedium |-> FALSE])
  IN [ score |-> acc.score - impact,
       hasHigh |-> acc.hasHigh \/ sev = "high",
       hasMedium |-> acc.hasMedium \/ sev = "medium",
       groupAgg |->
         [i \in 1..Len(rows) |->
            IF rows[i].groupKey = groupKey
              THEN [rows[i] EXCEPT !.scoreImpact = @ - impact,
                                   !.hasHigh = @ \/ sev = "high",
                                   !.hasMedium = @ \/ sev = "medium"]
              ELSE rows[i]] ]

RECURSIVE v1Loop(_, _, _)
v1Loop(fs, ss, acc) ==
  IF fs = <<>> THEN acc ELSE v1Loop(Tail(fs), ss, v1Step(Head(fs), ss, acc))

\* a.localeCompare(b) <= 0, at primary strength: characters compare by their
\* place in CollationOrder after case folding, a prefix sorts first
CollationOrder == " -/_0123456789abcde&fghi!jklmn~o@pqrstuvwxyz"
collationIndex(c) ==
  LET l == lowerChar(c)
  IN IF \E i \in 1..Len(CollationOrder) : CharAt(CollationOrder, i) = l
       THEN CHOOSE i \in 1..Len(CollationOrder) : CharAt(CollationOrder, i) = l
       ELSE 0

RECURSIVE localeCompareLeq(_, _)
localeCompareLeq(a, b) ==
  IF a = "" THEN TRUE
  ELSE IF b = "" THEN FALSE
  ELSE LET x == collationIndex(CharAt(a, 1))
           y == collationIndex(CharAt(b, 1))
       IN IF x < y THEN TRUE
          ELSE IF x > y THEN FALSE
          ELSE localeCompareLeq(SubSeq(a, 2, Len(a)), SubSeq(b, 2, Len(b)))

\* Array.prototype.sort((a, b) => a.title.localeCompare(b.title)): stable
RECURSIVE sortByTitle(_)
sortByTitle(rows) ==
  IF rows = <<>> THEN <<>>
  ELSE
    LET n == Len(rows)
        front == sortByTitle(SubSeq(rows, 1, n - 1))
        r == rows[n]
        keep == {i \in 0..Len(front) :
                   \A j \in 1..Len(front) :
                     (j <= i) <=> localeCompareLeq(front[j].title, r.title)}
        at == IF keep = {} THEN Len(front) ELSE CHOOSE i \in keep : TRUE
    IN SubSeq(front, 1, at) \o <<r>> \o SubSeq(front, at + 1, Len(front))

computeScoringV1(fs, ss) ==
  LET done == v1Loop(fs, ss, [score |-> 100, hasHigh |-> FALSE, hasMedium |-> FALSE,
                               groupAgg |-> <<>>])
      score == clampScore(done.score)
      rows == [i \in 1..Len(done.groupAgg) |->
                 LET g == done.groupAgg[i]
                 IN [groupKey |-> g.groupKey, title |-> g.title,
                     scoreImpact |-> g.scoreImpact,
                     badge |-> badgeFromScoreV1(clampScore(100 + g.scoreImpact),
                                                g.hasHigh, g.hasMedium)]]
  IN [ scoreVersion |-> "SCORING_V1",
       score |-> Num(score),
       badge |-> badgeFromScoreV1(score, done.hasHigh, done.hasMedium),
       byGroup |-> sortByTitle(rows) ]

(***************************************************************************)
(* Values of the variables a specification does not use                    *)
(***************************************************************************)
NoResult == [scoreVersion |-> "NONE"]
NoSlot == [slotCode |-> "", title |-> "", message |-> ""]

NotRescored == [index |-> 0, kpi |-> ""]

ScoringIdle ==
  /\ scoreConfig = EmptyObject
  /\ slots = <<>>
  /\ findings = <<>>
  /\ summary = NoResult

ClassifyIdle ==
  /\ cslot = NoSlot
  /\ cmap = NoMap
  /\ ccall = "none"
  /\ ckpi = ""

PlanIdle ==
  /\ planInput = EmptyObject
  /\ plan = <<>>
  /\ rescored = NotRescored

NotNormalized == [notNormalized |-> TRUE]
NotMapped == "NOT_MAPPED"

NormalizeIdle ==
  /\ normalized = NotNormalized
  /\ normCalls = 0

MappingIdle ==
  /\ mcode = ""
  /\ mtype = NotMapped

FileAbsent == [absent |-> TRUE]
NoReply == [status |-> "none", n |-> 0]

ServerIdle ==
  /\ configFile = FileAbsent
  /\ reply = NoReply

EmptyDb == [captureToken |-> <<>>, slot |-> <<>>, photo |-> <<>>]

CaptureIdle ==
  /\ db = EmptyDb
  /\ reqs = <<>>
  /\ clock = 0

(***************************************************************************)
(* Spec: a case is assembled slot by slot and finding by finding and is    *)
(* scored with computeScoringV2_2 under the configuration the caller       *)
(* holds, or with computeScoringV1.  A slot's id is its place in the list. *)
(***************************************************************************)
MaxSlots == 2
MaxFindings == 1

Badge5090 == [yellowFrom |-> Num(50), greenFrom |-> Num(90)]

\* penalties above 100, negative, given as a numeral string; partial kpis
PenaltiesConfig ==
  [ kpis |-> [ PISOS |-> [low |-> Num(-10), medium |-> Num(120), high |-> Num(45)],
               ELECTRICIDAD |-> [high |-> NumStr(40)] ],
    badge |-> Badge5090 ]

\* a KPI key outside the default set, reached through the caller's slotKpiMap
CustomKpiConfig ==
  [ kpis |-> [ CUSTOM |-> [low |-> Num(40), high |-> Str, critical |-> Num(50)] ],
    slotKpiMap |-> [FOO_BAR |-> "custom"],
    badge |-> [greenFrom |-> NumStr(90)] ]

ScoreConfigs ==
  { DEFAULT_SCORE_CONFIG,
    PenaltiesConfig,
    CustomKpiConfig,
    [kpis |-> NonObject(FALSE)],
    [badge |-> Badge5090],
    NonObject(FALSE) }

slotOf(slotCode, title, message, severity, findingCode, groupKey, groupTitle) ==
  [ slotCode |-> slotCode, title |-> title, message |-> message,
    severity |-> severity, findingCode |-> findingCode,
    groupKey |-> groupKey, groupTitle |-> groupTitle ]

SlotCandidates ==
  { slotOf("ELECTRICAL_PANEL", "Tablero el&ctrico", "", "high", "", "ELECTRICAL", "Electricidad"),
    slotOf("BATHROOM_1_CEILING", "Ba~o principal - Cielo", "La imagen est@ muy oscura.",
           "medium", "PHOTO_TOO_DARK", "BATH_MAIN", "Ba~o principal"),
    slotOf("LIVING_FLOOR", "Living - Piso", "", "HIGH", "FLOOR_DAMAGE", "LIVING", "Living"),
    slotOf("LIVING_FLOOR", "Living - Piso", "La imagen es demasiado peque~a.",
           "medium", "PHOTO_TOO_SMALL", "LIVING", "Living"),
    slotOf("LIVING_FLOOR", "Living - Piso", "Imagen v@lida.", "low", "OK", "LIVING", "Living"),
    slotOf("FOO_BAR", "", "", "high", "X", "", ""),
    slotOf("FOO_BAR", "", "", "critical", "X", "", ""),
    slotOf("KITCHEN_WINDOW", "Cocina - Ventana", "", "critical", "X", "KITCHEN", "Cocina"),
    slotOf("BEDROOM_1_CLOSET", "Dormitorio 1 - Closet", "", "", "", "BEDROOM_1", "Dormitorio 1") }

findingOf(slotId, severity, problemType) ==
  [slotId |-> slotId, severity |-> severity, problemType |-> problemType]

FindingCandidates ==
  { findingOf(1, "high", "MATERIAL_DETACHMENT"),
    findingOf(2, "low", "COSMETIC") }

withId(slot, id) == [k \in DOMAIN slot \cup {"id"} |-> IF k = "id" THEN id ELSE slot[k]]

Init ==
  /\ scoreConfig \in ScoreConfigs
  /\ slots = <<>>
  /\ findings = <<>>
  /\ summary = NoResult
  /\ ClassifyIdle
  /\ PlanIdle
  /\ NormalizeIdle
  /\ MappingIdle
  /\ ServerIdle
  /\ CaptureIdle

AddSlot ==
  /\ Len(slots) < MaxSlots
  /\ \E s \in SlotCandidates : slots' = Append(slots, withId(s, Len(slots) + 1))
  /\ summary' = NoResult
  /\ UNCHANGED <<scoreConfig, findings, classifyVars, planVars, normalizeVars, mappingVars, serverVars, captureVars>>

AddFinding ==
  /\ Len(findings) < MaxFindings
  /\ \E f \in FindingCandidates : findings' = Append(findings, f)
  /\ summary' = NoResult
  /\ UNCHANGED <<scoreConfig, slots, classifyVars, planVars, normalizeVars, mappingVars, serverVars, captureVars>>

ScoreV2_2 ==
  /\ summary' = computeScoringV2_2(findings, slots, scoreConfig)
  /\ scoreConfig' = configAfterScoring(scoreConfig)
  /\ UNCHANGED <<slots, findings, classifyVars, planVars, normalizeVars, mappingVars, serverVars, captureVars>>

ScoreV1 ==
  /\ summary' = computeScoringV1(findings, slots)
  /\ UNCHANGED <<scoreConfig, slots, findings, classifyVars, planVars, normalizeVars, mappingVars, serverVars, captureVars>>

Next == AddSlot \/ AddFinding \/ ScoreV2_2 \/ ScoreV1

Spec == Init /\ [][Next]_vars

(***************************************************************************)
(* SpecFindings: the findings of a case with three photographed slots, a   *)
(* bathroom, the electrical panel and a garage slot without a group,       *)
(* scored without KPI penalties.                                           *)
(***************************************************************************)
MaxCaseFindings == 2

CaseSlots ==
  << withId(slotOf("BATHROOM_1_OUTLETS", "Ba~o principal - Enchufes", "", "medium",
                   "PHOTO_TOO_DARK", "BATH_MAIN", "Ba~o principal"), 1),
     withId(slotOf("ELECTRICAL_PANEL", "Tablero el&ctrico", "", "low", "OK",
                   "ELECTRICAL", "Electricidad"), 2),
     withId(slotOf("garage_panel", "Garage", "", "", "", "", ""), 3) >>

ProblemTypes == DOMAIN PROBLEM_BASE_V22
Severities == {"low", "medium", "high"}

CaseFindingCandidates ==
  {findingOf(1, sev, pt) : sev \in Severities, pt \in ProblemTypes}
    \cup {findingOf(2, sev, pt) : sev \in {"low", "high"},
                                  pt \in {"ELECTRICAL_RISK", "HUMIDITY_FILTRATION"}}
    \cup { findingOf(1, "critical", "ELECTRICAL_RISK"),
           findingOf(3, "HIGH", "HUMIDITY_FILTRATION"),
           findingOf(3, "", "STRUCTURAL_CRACK"),
           findingOf(9, "high", "STRUCTURAL_CRACK"),
           findingOf(1, "high", "UNKNOWN"),
           findingOf(2, "medium", "") }

InitFindings ==
  /\ scoreConfig \in {EmptyObject, [badge |-> Badge5090]}
  /\ slots = CaseSlots
  /\ findings = <<>>
  /\ summary = NoResult
  /\ ClassifyIdle
  /\ PlanIdle
  /\ NormalizeIdle
  /\ MappingIdle
  /\ ServerIdle
  /\ CaptureIdle

AddCaseFinding ==
  /\ Len(findings) < MaxCaseFindings
  /\ \E f \in CaseFindingCandidates : findings' = Append(findings, f)
  /\ summary' = NoResult
  /\ UNCHANGED <<scoreConfig, slots, classifyVars, planVars, normalizeVars, mappingVars, serverVars, captureVars>>

NextFindings == AddCaseFinding \/ ScoreV2_2 \/ ScoreV1

SpecFindings == InitFindings /\ [][NextFindings]_vars

(***************************************************************************)
(* Claims about the scores (C1 .. C6)                                      *)
(***************************************************************************)
RECURSIVE SumSeq(_)
SumSeq(q) == IF q = <<>> THEN 0 ELSE Head(q) + SumSeq(Tail(q))

V2Versions == {"SCORING_V2_2_KPI", "SCORING_V2_2"}

\* 100 - total held within 0..100
ClampedScore(total) ==
  IF total.t = "num"
    THEN Num(IF 100 - total.v < 0 THEN 0 ELSE IF 100 - total.v > 100 THEN 100 ELSE 100 - total.v)
    ELSE NaN

\* C1: every score returned by computeScoringV2_2, under Strategy A and under
\* Strategy B, and by computeScoringV1 is a number between 0 and 100, whatever
\* the slots, the findings and the configuration.
C1_ScoreInRange ==
  summary # NoResult => (summary.score.t = "num" /\ summary.score.v \in 0..100)

\* the normalized form of each configuration of ScoreConfigs, as given and as
\* a scoring call leaves it
NormalizedConfigs ==
  [c \in ScoreConfigs \cup {configAfterNormalize(c) : c \in ScoreConfigs} |->
     normalizeScoreConfig(c)]
Normalized == NormalizedConfigs[scoreConfig]
KpiOf(i) == classifyKpiFromSlot(slots[i], Normalized.slotKpiMap)

\* the slots Strategy A scores according to C2: a severity and a KPI key of
\* the normalized configuration
Scored(i) ==
  /\ slots[i].severity # ""
  /\ KpiOf(i) # ""
  /\ KpiOf(i) \in DOMAIN Normalized.kpis
  /\ Truthy(Normalized.kpis[KpiOf(i)])

\* config.kpis[kpiKey][severity], 0 when the KPI has no penalty for it
ConfiguredPenalty(i) ==
  LET entry == Normalized.kpis[KpiOf(i)]
      sev == toLowerCase(slots[i].severity)
  IN IF IsObject(entry) /\ sev \in DOMAIN entry /\ entry[sev] # JsNull THEN entry[sev] ELSE Num(0)

\* config.kpis[kpiKey][severity], 0 when the severity is not low, medium or high
StandardPenalty(i) ==
  IF toLowerCase(slots[i].severity) \in {"low", "medium", "high"}
    THEN ConfiguredPenalty(i) ELSE Num(0)

\* the sum of the penalties of the scored slots among those that satisfy Counted,
\* read as numbers
PenaltySum(penalty(_), Counted(_)) ==
  LET vals == [i \in 1..Len(slots) |->
                 IF Scored(i) /\ Counted(i) THEN Number(penalty(i)) ELSE Num(0)]
  IN IF \A i \in 1..Len(slots) : vals[i].t = "num"
       THEN Num(SumSeq([i \in 1..Len(slots) |-> vals[i].v]))
       ELSE NaN

AnySlot(i) == TRUE
Analyzed(i) == slots[i].findingCode # ""

OnlyPanelHigh ==
  /\ scoreConfig = DEFAULT_SCORE_CONFIG
  /\ Len(slots) = 1
  /\ slots[1].slotCode = "ELECTRICAL_PANEL"
  /\ slots[1].severity = "high"

BaseImpact ==
  [ HUMIDITY_FILTRATION |-> 20, PIPE_LEAK_CORROSION |-> 25, ELECTRICAL_RISK |-> 35,
    STRUCTURAL_CRACK |-> 40, MATERIAL_DETACHMENT |-> 30, SANITARY_RISK |-> 25,
    COSMETIC |-> 5 ]

\* the severity factor in hundredths
FactorPercent(severity) ==
  LET sev == toLowerCase(severity)
  IN IF sev = "medium" THEN 130 ELSE IF sev = "high" THEN 150 ELSE 100

RoundHalfUp(hundredths) ==
  IF hundredths % 100 >= 50 THEN hundredths \div 100 + 1 ELSE hundredths \div 100

\* the impact C3 gives finding i, 0 when it does not contribute
FindingImpact(i) ==
  LET f == findings[i]
  IN IF hasSlot(slots, f.slotId) /\ f.problemType \in DOMAIN BaseImpact
       THEN RoundHalfUp(BaseImpact[f.problemType] * FactorPercent(f.severity)
                        + 100 * contextPenalty(f.problemType,
                                               deriveContextFlags(slotById(slots, f.slotId))))
       ELSE 0

StrategyBTotal == Num(SumSeq([i \in 1..Len(findings) |-> FindingImpact(i)]))

HighElectricalRiskInBathroom ==
  /\ findings = <<findingOf(1, "high", "ELECTRICAL_RISK")>>
  /\ slots[1].groupKey = "BATH_MAIN"

HasKpisField ==
  /\ IsObject(scoreConfig)
  /\ "kpis" \in DOMAIN scoreConfig
  /\ scoreConfig.kpis # NonObject(FALSE)

\* C4: a call of computeScoringV2_2 follows exactly one strategy: with a kpis
\* field in the configuration the result is Strategy A's, SCORING_V2_2_KPI,
\* the same as for an empty findings list whatever the findings are; without
\* one it is Strategy B's, SCORING_V2_2, computed from the findings.
C4_OneStrategyPerCall ==
  summary.scoreVersion \in V2Versions =>
    IF HasKpisField
      THEN /\ summary.scoreVersion = "SCORING_V2_2_KPI"
           /\ summary = computeScoringV2_2(<<>>, slots, scoreConfig)
      ELSE /\ summary.scoreVersion = "SCORING_V2_2"
           /\ summary.totalImpact = StrategyBTotal

C4_Witness ==
  /\ HasKpisField
  /\ findings # <<>>
  /\ summary.scoreVersion = "SCORING_V2_2_KPI"
  /\ summary.totalImpact = Num(45)

\* config.badge[name] when the configuration holds a number there
ThresholdFrom(name, default) ==
  IF /\ IsObject(scoreConfig)
     /\ "badge" \in DOMAIN scoreConfig
     /\ IsObject(scoreConfig.badge)
     /\ name \in DOMAIN scoreConfig.badge
     /\ Number(scoreConfig.badge[name]).t = "num"
    THEN Number(scoreConfig.badge[name]).v
    ELSE default

ThresholdBadge(score, yellowFrom, greenFrom) ==
  IF score.t = "num" /\ score.v < yellowFrom THEN "RED"
  ELSE IF score.t = "num" /\ score.v < greenFrom THEN "YELLOW"
  ELSE "GREEN"

\* C5: the badge of a Strategy A or Strategy B result is RED when its score is
\* below yellowFrom, YELLOW when below greenFrom, GREEN otherwise, with the
\* thresholds of config.badge, 60 and 85 where absent; a score of 55 is YELLOW
\* under {yellowFrom: 50, greenFrom: 90} and RED under the defaults.
C5_BadgeFromThresholds ==
  /\ summary.scoreVersion \in V2Versions =>
       summary.badge = ThresholdBadge(summary.score, ThresholdFrom("yellowFrom", 60),
                                      ThresholdFrom("greenFrom", 85))
  /\ badgeFromScore(Num(55), [badge |-> Badge5090]) = "YELLOW"
  /\ badgeFromScore(Num(55), EmptyObject) = "RED"

C5_Witness ==
  /\ summary.scoreVersion = "SCORING_V2_2"
  /\ scoreConfig = [badge |-> Badge5090]
  /\ summary.score = Num(55)
  /\ summary.badge = "YELLOW"

\* C6: a slot counts towards the Strategy A score only if it has both a finding
\* code and a severity: a slot without a finding code adds no penalty and no
\* byGroup row.
C6_UnanalyzedSlotsExcluded ==
  summary.scoreVersion = "SCORING_V2_2_KPI" =>
    /\ summary.totalImpact = PenaltySum(ConfiguredPenalty, Analyzed)
    /\ \A r \in 1..Len(summary.byGroup) :
         \E i \in 1..Len(slots) :
           Scored(i) /\ Analyzed(i) /\ KpiOf(i) = summary.byGroup[r].groupKey

\* C11: neither normalizeScoreConfig nor computeScoringV2_2 changes the
\* configuration object passed to it: every field of the caller's
\* configuration, the contents of kpis and messages included, has the same
\* value after the call as before.
C11_ConfigNeverChanged == [][scoreConfig' = scoreConfig]_vars

\* a finding the Strategy B loop passes over: its slot is not among the slots,
\* or its problem type (null, or a name outside the table) has no base
SkippedFinding(f) ==
  \/ \A i \in 1..Len(slots) : slots[i].id # f.slotId
  \/ f.problemType \notin ProblemTypes

KeptFindings == SelectSeq(findings, LAMBDA f : ~SkippedFinding(f))

\* C17: under Strategy B a skipped finding has no effect: the result (score,
\* badge, totalImpact and the byGroup rows) is the result computed from the
\* findings without the skipped ones, so a skipped finding adds nothing to the
\* total and makes no row.
C17_SkippedFindingsNoEffect ==
  (summary # NoResult /\ summary.scoreVersion = "SCORING_V2_2") =>
    /\ summary = computeScoringV2_2(KeptFindings, slots, scoreConfig)
    /\ Len(summary.byGroup) <= Len(KeptFindings)

C17_Witness ==
  /\ summary # NoResult
  /\ summary.scoreVersion = "SCORING_V2_2"
  /\ Len(findings) = 2
  /\ SkippedFinding(findings[1])
  /\ findings[1].slotId = 2
  /\ findings[1].problemType = ""
  /\ ~SkippedFinding(findings[2])
  /\ Len(summary.byGroup) = 1
  /\ summary.totalImpact.v > 0

(***************************************************************************)
(* SpecContext: one photographed slot, of any group and slot code, and     *)
(* low-severity findings on it, scored by Strategy B.                      *)
(***************************************************************************)
MaxContextFindings == 1

ContextGroupKeys ==
  {"BATH_MAIN", "BATH_SECONDARY", "BATHROOM", "SUB_BATH", "KITCHEN", "KITCHEN_2",
   "kitchen", "LAUNDRY", "ELECTRICAL", "STRUCTURE", "LIVING", ""}

ContextSlotCodes ==
  {"BATHROOM_1_OUTLETS", "ELECTRICAL_PANEL", "MAIN_PANEL", "KITCHEN_ELECTRICAL_1",
   "garage_panel", "LIVING_FLOOR", ""}

InitContext ==
  /\ scoreConfig = EmptyObject
  /\ \E g \in ContextGroupKeys, c \in ContextSlotCodes :
       slots = <<withId(slotOf(c, "", "", "", "", g, ""), 1)>>
  /\ findings = <<>>
  /\ summary = NoResult
  /\ ClassifyIdle
  /\ PlanIdle
  /\ NormalizeIdle
  /\ MappingIdle
  /\ ServerIdle
  /\ CaptureIdle

AddContextFinding ==
  /\ Len(findings) < MaxContextFindings
  /\ \E pt \in ProblemTypes : findings' = Append(findings, findingOf(1, "low", pt))
  /\ summary' = NoResult
  /\ UNCHANGED <<scoreConfig, slots, classifyVars, planVars, normalizeVars, mappingVars, serverVars, captureVars>>

NextContext == AddContextFinding \/ ScoreV2_2

SpecContext == InitContext /\ [][NextContext]_vars

\* the surcharge C18 gives a problem type on a slot; group key and slot code
\* are read in upper-case
Surcharge(problemType, slot) ==
  LET g == toUpperCase(slot.groupKey)
      c == toUpperCase(slot.slotCode)
      wet == (Len(g) >= 4 /\ SubSeq(g, 1, 4) = "BATH") \/ g \in {"KITCHEN", "LAUNDRY"}
      electrical == g = "ELECTRICAL" \/ includes(c, "ELECTRICAL") \/ includes(c, "PANEL")
  IN IF (problemType = "ELECTRICAL_RISK" /\ wet)
        \/ (problemType = "HUMIDITY_FILTRATION" /\ electrical)
       THEN 15 ELSE 0

\* C18: the context surcharge of a finding is 15 exactly when its problem type
\* is ELECTRICAL_RISK and the slot's group key starts with BATH or is KITCHEN or
\* LAUNDRY, or its problem type is HUMIDITY_FILTRATION and the slot's group is
\* ELECTRICAL or its slot code contains ELECTRICAL or PANEL; it is 0 otherwise
\* and never more than 15.  With low-severity findings (factor 1.0) the total
\* impact is the sum of base + surcharge.
C18_ContextSurcharge ==
  /\ \A i \in 1..Len(findings) :
       /\ contextPenalty(findings[i].problemType, deriveContextFlags(slots[1]))
            = Surcharge(findings[i].problemType, slots[1])
       /\ Surcharge(findings[i].problemType, slots[1]) <= 15
  /\ (summary # NoResult /\ summary.scoreVersion = "SCORING_V2_2") =>
       summary.totalImpact =
         Num(SumSeq([i \in 1..Len(findings) |->
                       BaseImpact[findings[i].problemType]
                         + Surcharge(findings[i].problemType, slots[1])]))

C18_Witness ==
  /\ summary # NoResult
  /\ summary.scoreVersion = "SCORING_V2_2"
  /\ slots[1].groupKey = "BATH_MAIN"
  /\ slots[1].slotCode = "ELECTRICAL_PANEL"
  /\ findings = <<findingOf(1, "low", "ELECTRICAL_RISK")>>
  /\ summary.totalImpact = Num(50)

\* C19: in the result of either strategy each byGroup row's scoreIfOnlyGroup
\* is 100 minus that row's own impact held within 0..100: a number between 0
\* and 100 that depends on no other row.
C19_ScoreIfOnlyGroupClamped ==
  (summary # NoResult /\ summary.scoreVersion \in V2Versions) =>
    \A i \in 1..Len(summary.byGroup) :
      /\ summary.byGroup[i].scoreIfOnlyGroup = ClampedScore(summary.byGroup[i].impact)
      /\ summary.byGroup[i].scoreIfOnlyGroup.t = "num"
      /\ summary.byGroup[i].scoreIfOnlyGroup.v \in 0..100

(***************************************************************************)
(* storage.js: the finding code taxonomy                                   *)
(***************************************************************************)
\* the taxonomy without its rows for the photo validations; C21 tells it from
\* FINDING_TO_PROBLEM_V22
FINDING_TO_PROBLEM_V22_NoQa ==
  [ POSSIBLE_HUMIDITY_STAIN |-> "HUMIDITY_FILTRATION",
    ACTIVE_LEAK_SUSPECTED |-> "HUMIDITY_FILTRATION",
    SEAL_FAILURE |-> "HUMIDITY_FILTRATION",
    HUMIDITY_SIGNS |-> "HUMIDITY_FILTRATION",
    WATER_STAIN_PATTERN |-> "HUMIDITY_FILTRATION",
    POSSIBLE_PIPE_LEAK |-> "PIPE_LEAK_CORROSION",
    PIPE_CORROSION |-> "PIPE_LEAK_CORROSION",
    ELECTRICAL_EXPOSED_WIRING |-> "ELECTRICAL_RISK",
    ELECTRICAL_OVERHEAT_MARKS |-> "ELECTRICAL_RISK",
    ELECTRICAL_PANEL_RISK |-> "ELECTRICAL_RISK",
    STRUCTURAL_CRACK_SUSPECTED |-> "STRUCTURAL_CRACK",
    MATERIAL_DETACHMENT |-> "MATERIAL_DETACHMENT",
    MOLD_SUSPECTED |-> "SANITARY_RISK",
    MOLD_POSSIBLE |-> "SANITARY_RISK",
    COSMETIC_WEAR |-> "COSMETIC" ]

FINDING_TO_PROBLEM_V22 ==
  [ POSSIBLE_HUMIDITY_STAIN |-> "HUMIDITY_FILTRATION",
    ACTIVE_LEAK_SUSPECTED |-> "HUMIDITY_FILTRATION",
    SEAL_FAILURE |-> "HUMIDITY_FILTRATION",
    HUMIDITY_SIGNS |-> "HUMIDITY_FILTRATION",
    WATER_STAIN_PATTERN |-> "HUMIDITY_FILTRATION",
    POSSIBLE_PIPE_LEAK |-> "PIPE_LEAK_CORROSION",
    PIPE_CORROSION |-> "PIPE_LEAK_CORROSION",
    ELECTRICAL_EXPOSED_WIRING |-> "ELECTRICAL_RISK",
    ELECTRICAL_OVERHEAT_MARKS |-> "ELECTRICAL_RISK",
    ELECTRICAL_PANEL_RISK |-> "ELECTRICAL_RISK",
    STRUCTURAL_CRACK_SUSPECTED |-> "STRUCTURAL_CRACK",
    MATERIAL_DETACHMENT |-> "MATERIAL_DETACHMENT",
    MOLD_SUSPECTED |-> "SANITARY_RISK",
    MOLD_POSSIBLE |-> "SANITARY_RISK",
    COSMETIC_WEAR |-> "COSMETIC",
    NOT_PROPERTY_IMAGE |-> "COSMETIC",
    NOT_BATHROOM_IMAGE |-> "COSMETIC",
    PHOTO_TOO_DARK |-> "COSMETIC",
    PHOTO_TOO_SMALL |-> "COSMETIC",
    PHOTO_TOO_BLURRY |-> "COSMETIC" ]

\* FINDING_TO_PROBLEM_V22 is an object literal: a property read on it that finds
\* no own key goes on to Object.prototype, whose members have these names
ObjectPrototypeMembers ==
  {"constructor", "toString", "toLocaleString", "valueOf", "hasOwnProperty",
   "isPrototypeOf", "propertyIsEnumerable", "__proto__", "__defineGetter__",
   "__defineSetter__", "__lookupGetter__", "__lookupSetter__"}

\* the member of Object.prototype of that name (a function, or for __proto__
\* the prototype object): a truthy value that is not a string
InheritedMember(name) == "Object.prototype." \o name

\* null is ""
mapFindingToProblemType(findingCode) ==
  IF findingCode = "" THEN ""
  ELSE IF findingCode \in DOMAIN FINDING_TO_PROBLEM_V22
    THEN FINDING_TO_PROBLEM_V22[findingCode]
  ELSE IF findingCode \in ObjectPrototypeMembers THEN InheritedMember(findingCode)
  ELSE ""

(***************************************************************************)
(* SpecMapFinding: mapFindingToProblemType is called on finding codes.     *)
(***************************************************************************)
FindingCodeInputs ==
  DOMAIN FINDING_TO_PROBLEM_V22
    \cup {toLowerCase(k) : k \in DOMAIN FINDING_TO_PROBLEM_V22}
    \cup {k \o " " : k \in DOMAIN FINDING_TO_PROBLEM_V22}
    \cup {" " \o k : k \in DOMAIN FINDING_TO_PROBLEM_V22}
    \cup ObjectPrototypeMembers
    \cup {"", "OK", "UNKNOWN_CODE", "HUMIDITY_FILTRATION", "COSMETIC", "SANITARY_RISK",
          "Mold_Suspected", "MOLD", "0", "null"}

InitMapFinding ==
  /\ ScoringIdle
  /\ ClassifyIdle
  /\ PlanIdle
  /\ NormalizeIdle
  /\ MappingIdle
  /\ ServerIdle
  /\ CaptureIdle

MapFinding ==
  /\ \E code \in FindingCodeInputs :
       /\ mcode' = code
       /\ mtype' = mapFindingToProblemType(code)
  /\ UNCHANGED <<scoringVars, classifyVars, planVars, normalizeVars, serverVars, captureVars>>

NextMapFinding == MapFinding

SpecMapFinding == InitMapFinding /\ [][NextMapFinding]_vars

\* C20: mapFindingToProblemType returns null or one of the seven problem
\* types, and null for a falsy code and for every code that is not, letter for
\* letter, a key of FINDING_TO_PROBLEM_V22.
C20_NullOrProblemType ==
  mtype # NotMapped =>
    /\ mtype \in {""} \cup DOMAIN BaseImpact
    /\ (mcode = "" \/ mcode \notin DOMAIN FINDING_TO_PROBLEM_V22) => mtype = ""

(***************************************************************************)
(* SpecQc: the analysis codes the capture pipeline writes on a slot are    *)
(* mapped to problem types and the findings scored by Strategy B.          *)
(***************************************************************************)
MaxQcFindings == 2

REPEAT_CODES ==
  {"PHOTO_TOO_DARK", "PHOTO_TOO_SMALL", "PHOTO_TOO_BLURRY", "NOT_PROPERTY_IMAGE"}

\* the codes analyzeImageBufferV1 and the blur check emit, with OK
AnalysisCodes == REPEAT_CODES \cup {"OK"}

QcSeverities == {"low", "medium", "high", "HIGH"}

InitQc ==
  /\ scoreConfig = EmptyObject
  /\ slots = CaseSlots
  /\ findings = <<>>
  /\ summary = NoResult
  /\ ClassifyIdle
  /\ PlanIdle
  /\ NormalizeIdle
  /\ MappingIdle
  /\ ServerIdle
  /\ CaptureIdle

\* a finding of the normalized list: the slot's analysis code with the problem
\* type mapFindingToProblemType gives it
AddQcFinding ==
  /\ Len(findings) < MaxQcFindings
  /\ \E code \in AnalysisCodes, sev \in QcSeverities, id \in {1, 9} :
       /\ mcode' = code
       /\ mtype' = mapFindingToProblemType(code)
       /\ findings' = Append(findings,
            [slotId |-> id, severity |-> sev, findingCode |-> code,
             problemType |-> mapFindingToProblemType(code)])
  /\ summary' = NoResult
  /\ UNCHANGED <<scoreConfig, slots, classifyVars, planVars, normalizeVars,
                 serverVars, captureVars>>

NextQc == AddQcFinding \/ ScoreV2_2

SpecQc == InitQc /\ [][NextQc]_vars

QualityControlCodes ==
  {"PHOTO_TOO_DARK", "PHOTO_TOO_SMALL", "PHOTO_TOO_BLURRY", "NOT_PROPERTY_IMAGE"}

\* what C21 says a quality-control finding on an existing slot contributes
QcImpact(i) ==
  IF findings[i].findingCode \in QualityControlCodes
     /\ \E j \in 1..Len(slots) : slots[j].id = findings[i].slotId
    THEN IF toLowerCase(findings[i].severity) = "medium" THEN 7
         ELSE IF toLowerCase(findings[i].severity) = "high" THEN 8
         ELSE 5
    ELSE 0

\* C21: each quality-control rejection code (PHOTO_TOO_DARK, PHOTO_TOO_SMALL,
\* PHOTO_TOO_BLURRY, NOT_PROPERTY_IMAGE) is mapped to COSMETIC, and under
\* Strategy B a finding with such a code on an existing slot contributes 5, 7
\* or 8 by severity: with only such findings and OK ones, totalImpact is the
\* sum of those contributions and is positive as soon as there is one.
C21_QcCodesArePenalized ==
  /\ \A i \in 1..Len(findings) :
       findings[i].findingCode \in QualityControlCodes
         => findings[i].problemType = "COSMETIC"
  /\ (summary # NoResult /\ summary.scoreVersion = "SCORING_V2_2") =>
       /\ summary.totalImpact = Num(SumSeq([i \in 1..Len(findings) |-> QcImpact(i)]))
       /\ (\E i \in 1..Len(findings) : QcImpact(i) > 0) => summary.totalImpact.v >= 5

C21_Witness ==
  /\ summary # NoResult
  /\ summary.scoreVersion = "SCORING_V2_2"
  /\ Len(findings) = 2
  /\ findings[1].findingCode = "PHOTO_TOO_BLURRY"
  /\ findings[1].severity = "high"
  /\ findings[1].slotId = 1
  /\ findings[2].findingCode = "PHOTO_TOO_DARK"
  /\ findings[2].severity = "medium"
  /\ findings[2].slotId = 1
  /\ summary.totalImpact = Num(15)

(***************************************************************************)
(* SpecConfidence: slots and findings carry the analyzer's confidence      *)
(* (hundredths, or null) and are scored by each of the three formulas.     *)
(***************************************************************************)
MaxRatedSlots == 2
MaxRatedFindings == 1

ConfidenceValues == {JsNull, Num(20), Num(95)}

RatedSlotCandidates ==
  { slotOf("ELECTRICAL_PANEL", "Tablero el&ctrico", "", "high", "", "ELECTRICAL", "Electricidad"),
    slotOf("BATHROOM_1_CEILING", "Ba~o principal - Cielo", "La imagen est@ muy oscura.",
           "medium", "PHOTO_TOO_DARK", "BATH_MAIN", "Ba~o principal") }

InitConfidence ==
  /\ scoreConfig \in {EmptyObject, DEFAULT_SCORE_CONFIG}
  /\ slots = <<>>
  /\ findings = <<>>
  /\ summary = NoResult
  /\ ClassifyIdle
  /\ PlanIdle
  /\ NormalizeIdle
  /\ MappingIdle
  /\ ServerIdle
  /\ CaptureIdle

AddRatedSlot ==
  /\ Len(slots) < MaxRatedSlots
  /\ \E s \in RatedSlotCandidates, c \in ConfidenceValues :
       slots' = Append(slots, ("analysisConfidence" :> c) @@ withId(s, Len(slots) + 1))
  /\ summary' = NoResult
  /\ UNCHANGED <<scoreConfig, findings, classifyVars, planVars, normalizeVars,
                 mappingVars, serverVars, captureVars>>

AddRatedFinding ==
  /\ Len(findings) < MaxRatedFindings
  /\ \E f \in FindingCandidates, c \in ConfidenceValues :
       findings' = Append(findings, ("confidence" :> c) @@ f)
  /\ summary' = NoResult
  /\ UNCHANGED <<scoreConfig, slots, classifyVars, planVars, normalizeVars,
                 mappingVars, serverVars, captureVars>>

NextConfidence == AddRatedSlot \/ AddRatedFinding \/ ScoreV2_2 \/ ScoreV1

SpecConfidence == InitConfidence /\ [][NextConfidence]_vars

\* the same slots and findings with every confidence replaced by c
SlotsRated(c) == [i \in 1..Len(slots) |-> [slots[i] EXCEPT !.analysisConfidence = c]]
FindingsRated(c) == [i \in 1..Len(findings) |-> [findings[i] EXCEPT !.confidence = c]]

\* C22: no scoring formula reads a confidence: the result for the slots and
\* findings at hand (score, badge, totalImpact, byGroup) is the result for the
\* same inputs with any other confidence values, under Strategy A, under
\* Strategy B and under computeScoringV1.
C22_ConfidenceNotConsumed ==
  summary # NoResult =>
    \A c \in ConfidenceValues \cup {Num(100)} :
      IF summary.scoreVersion \in V2Versions
        THEN summary = computeScoringV2_2(FindingsRated(c), SlotsRated(c), scoreConfig)
        ELSE summary = computeScoringV1(FindingsRated(c), SlotsRated(c))

C22_Witness ==
  /\ summary # NoResult
  /\ summary.scoreVersion = "SCORING_V2_2"
  /\ Len(slots) = 1
  /\ Len(findings) = 1
  /\ findings[1].confidence = Num(20)
  /\ findings[1].slotId = 1
  /\ summary.totalImpact.v > 0

(***************************************************************************)
(* SpecV1: the findings of the three-slot case scored by computeScoringV1, *)
(* enough of them to bring the score under each threshold.                 *)
(***************************************************************************)
MaxV1Findings == 5

V1FindingCandidates ==
  { findingOf(1, "low", "COSMETIC"),
    findingOf(2, "low", "ELECTRICAL_RISK"),
    findingOf(3, "medium", "COSMETIC"),
    findingOf(1, "HIGH", "ELECTRICAL_RISK"),
    findingOf(9, "critical", "COSMETIC") }

AddV1Finding ==
  /\ Len(findings) < MaxV1Findings
  /\ \E f \in V1FindingCandidates : findings' = Append(findings, f)
  /\ summary' = NoResult
  /\ UNCHANGED <<scoreConfig, slots, classifyVars, planVars, normalizeVars,
                 mappingVars, serverVars, captureVars>>

NextV1 == AddV1Finding \/ ScoreV1

SpecV1 == InitFindings /\ [][NextV1]_vars

AnyFindingOfSeverity(sev) ==
  \E i \in 1..Len(findings) : toLowerCase(findings[i].severity) = sev

\* C23: in computeScoringV1 the badge is RED whenever a finding has severity
\* high and is not GREEN whenever a finding has severity medium, whatever the
\* score; with no high and no medium finding it follows the thresholds 60 and
\* 85 on the clamped score.
C23_SeverityOverride ==
  (summary # NoResult /\ summary.scoreVersion = "SCORING_V1") =>
    /\ AnyFindingOfSeverity("high") => summary.badge = "RED"
    /\ AnyFindingOfSeverity("medium") => summary.badge # "GREEN"
    /\ (~AnyFindingOfSeverity("high") /\ ~AnyFindingOfSeverity("medium")) =>
         summary.badge = (IF summary.score.v < 60 THEN "RED"
                          ELSE IF summary.score.v < 85 THEN "YELLOW" ELSE "GREEN")

C23_Witness ==
  /\ summary # NoResult
  /\ summary.scoreVersion = "SCORING_V1"
  /\ findings = <<findingOf(1, "HIGH", "ELECTRICAL_RISK")>>
  /\ summary.score = Num(47)
  /\ summary.badge = "RED"

\* the thresholds at work without any override: five low findings
C23_WitnessThresholds ==
  /\ summary # NoResult
  /\ summary.scoreVersion = "SCORING_V1"
  /\ Len(findings) = 5
  /\ ~AnyFindingOfSeverity("high") /\ ~AnyFindingOfSeverity("medium")
  /\ summary.score.v < 60
  /\ summary.badge = "RED"

(***************************************************************************)
(* SpecOrder: a case of up to MaxOrderSlots analysed slots in two KPIs and *)
(* up to MaxOrderFindings findings, scored under no configuration          *)
(* (Strategy B), under the default penalties and under penalties of 0.1,   *)
(* 0.2 and 0.3 points, which POST /api/admin/score-config accepts as it   *)
(* accepts any finite number.                                              *)
(***************************************************************************)
MaxOrderSlots == 3
MaxOrderFindings == 2

FractionalConfig ==
  [ kpis |-> [ PISOS |-> [low |-> Dec("0.1", 0), medium |-> Dec("0.2", 0), high |-> Dec("0.3", 0)],
               HUMEDAD |-> [low |-> Dec("0.1", 0), medium |-> Dec("0.2", 0), high |-> Dec("0.3", 0)] ] ]

OrderSlotCandidates ==
  { slotOf("LIVING_FLOOR", "Living - Piso", "", "low", "FLOOR_DAMAGE", "LIVING", "Living"),
    slotOf("BATHROOM_1_CEILING", "Ba~o principal - Cielo", "", "medium", "HUMIDITY", "BATH_MAIN", "Ba~o principal"),
    slotOf("LIVING_FLOOR", "Living - Piso", "", "high", "FLOOR_DAMAGE", "LIVING", "Living") }

OrderFindingCandidates ==
  { findingOf(1, "high", "MATERIAL_DETACHMENT"),
    findingOf(2, "low", "COSMETIC") }

InitOrder ==
  /\ scoreConfig \in {EmptyObject, DEFAULT_SCORE_CONFIG, FractionalConfig}
  /\ slots = <<>>
  /\ findings = <<>>
  /\ summary = NoResult
  /\ ClassifyIdle
  /\ PlanIdle
  /\ NormalizeIdle
  /\ MappingIdle
  /\ ServerIdle
  /\ CaptureIdle

AddOrderSlot ==
  /\ Len(slots) < MaxOrderSlots
  /\ \E s \in OrderSlotCandidates : slots' = Append(slots, withId(s, Len(slots) + 1))
  /\ summary' = NoResult
  /\ UNCHANGED <<scoreConfig, findings, classifyVars, planVars, normalizeVars, mappingVars, serverVars, captureVars>>

AddOrderFinding ==
  /\ Len(findings) < MaxOrderFindings
  /\ \E f \in OrderFindingCandidates : findings' = Append(findings, f)
  /\ summary' = NoResult
  /\ UNCHANGED <<scoreConfig, slots, classifyVars, planVars, normalizeVars, mappingVars, serverVars, captureVars>>

NextOrder == AddOrderSlot \/ AddOrderFinding \/ ScoreV2_2 \/ ScoreV1

SpecOrder == InitOrder /\ [][NextOrder]_vars

\* every penalty the configuration holds is a whole number
WholePenalties(config) ==
  hasKpis(config) =>
    \A k \in DOMAIN config.kpis :
      IsObject(config.kpis[k]) =>
        \A sev \in DOMAIN config.kpis[k] : ~IsFraction(config.kpis[k][sev])

\* the impacts of the rows added up in row order, as a reader of byGroup adds them
RECURSIVE SumOfImpacts(_)
SumOfImpacts(rows) ==
  IF rows = <<>> THEN Num(0)
  ELSE Plus(SumOfImpacts(SubSeq(rows, 1, Len(rows) - 1)), rows[Len(rows)].impact)

SumOfScoreImpacts(rows) == SumSeq([i \in 1..Len(rows) |-> rows[i].scoreImpact])

DistinctGroupKeys(rows) ==
  \A i, j \in 1..Len(rows) : rows[i].groupKey = rows[j].groupKey => i = j

IsV2Result == summary.scoreVersion \in {"SCORING_V2_2", "SCORING_V2_2_KPI"}

\* C25 as the specification states it: in every Strategy A and Strategy B
\* result the impacts of the byGroup rows add up to totalImpact, no group key
\* has two rows and score is 100 - totalImpact clamped to [0, 100]; in every
\* V1 result score is 100 plus the rows' scoreImpact, clamped
C25_GroupImpactsAddUp ==
  /\ IsV2Result =>
       /\ SumOfImpacts(summary.byGroup) = summary.totalImpact
       /\ DistinctGroupKeys(summary.byGroup)
       /\ summary.score = clamp(Minus(Num(100), summary.totalImpact))
  /\ summary.scoreVersion = "SCORING_V1" =>
       /\ summary.score = Num(clampScore(100 + SumOfScoreImpacts(summary.byGroup)))
       /\ DistinctGroupKeys(summary.byGroup)

\* C25 amended: the same, the equality of the sum of the rows' impacts with
\* totalImpact being claimed for configurations whose penalties are whole
\* numbers (and for Strategy B and V1, whose impacts are rounded)
C25_GroupImpactsAddUpWhenWhole ==
  /\ IsV2Result =>
       /\ WholePenalties(scoreConfig) =>
            SumOfImpacts(summary.byGroup) = summary.totalImpact
       /\ DistinctGroupKeys(summary.byGroup)
       /\ summary.score = clamp(Minus(Num(100), summary.totalImpact))
  /\ summary.scoreVersion = "SCORING_V1" =>
       /\ summary.score = Num(clampScore(100 + SumOfScoreImpacts(summary.byGroup)))
       /\ DistinctGroupKeys(summary.byGroup)

\* two groups, one of them fed by two slots, under whole penalties
C25_Witness ==
  /\ summary.scoreVersion = "SCORING_V2_2_KPI"
  /\ WholePenalties(scoreConfig)
  /\ Len(slots) = 3
  /\ Len(summary.byGroup) = 2
  /\ summary.totalImpact.v > 0
  /\ SumOfImpacts(summary.byGroup) = summary.totalImpact

\* a V1 result with two findings
C25_WitnessV1 ==
  /\ summary.scoreVersion = "SCORING_V1"
  /\ Len(summary.byGroup) = 2
  /\ summary.score.v < 100

Permuted(seq, p) == [i \in 1..Len(seq) |-> seq[p[i]]]

GroupImpacts(result) ==
  {<<result.byGroup[i].groupKey, result.byGroup[i].impact>> : i \in 1..Len(result.byGroup)}

SameScoring(r1, r2) ==
  /\ r1.score = r2.score
  /\ r1.badge = r2.badge
  /\ r1.totalImpact = r2.totalImpact
  /\ GroupImpacts(r1) = GroupImpacts(r2)

OrderIndependent ==
  /\ summary.scoreVersion = "SCORING_V2_2_KPI" =>
       \A p \in Permutations(1..Len(slots)) :
         SameScoring(summary, computeScoringV2_2(findings, Permuted(slots, p), scoreConfig))
  /\ summary.scoreVersion = "SCORING_V2_2" =>
       \A p \in Permutations(1..Len(findings)) :
         SameScoring(summary, computeScoringV2_2(Permuted(findings, p), slots, scoreConfig))

\* C26 as the specification states it: score, badge, totalImpact and every
\* group's impact of a result are the same for every order of the slots
\* (Strategy A) and of the findings (Strategy B)
C26_OrderIndependent == OrderIndependent

\* C26 amended: the same for configurations whose penalties are whole numbers
\* (and for Strategy B, whose impacts are rounded)
C26_OrderIndependentWhenWhole == WholePenalties(scoreConfig) => OrderIndependent

\* three slots of different penalties in two KPIs, scored under whole penalties
C26_Witness ==
  /\ summary.scoreVersion = "SCORING_V2_2_KPI"
  /\ WholePenalties(scoreConfig)
  /\ Len(slots) = 3
  /\ slots[1].severity = "low" /\ slots[2].severity = "medium" /\ slots[3].severity = "high"
  /\ Len(summary.byGroup) = 2

\* two findings of different impacts in two groups, Strategy B
C26_WitnessFindings ==
  /\ summary.scoreVersion = "SCORING_V2_2"
  /\ Len(findings) = 2 /\ findings[1] # findings[2]
  /\ Len(summary.byGroup) = 2

(***************************************************************************)
(* server.js: the persisted score configuration.  configFile is the disk:  *)
(* dir is DATA_DIR ("present", "absent", or "uncreatable": absent and      *)
(* mkdirSync throws), file is what SCORE_CONFIG_PATH holds.  A file that   *)
(* holds JSON text is written [json |-> v], v the value JSON.parse gives.  *)
(***************************************************************************)
Unreadable == [unreadable |-> TRUE]
Malformed == [malformed |-> TRUE]
JsonFile(v) == [json |-> v]

NotLoaded == [notLoaded |-> TRUE]

\* ensureDataDir(): [threw, disk]
ensureDataDir(disk) ==
  IF disk.dir = "present" THEN [threw |-> FALSE, disk |-> disk]
  ELSE IF disk.dir = "absent"
    THEN [threw |-> FALSE, disk |-> [disk EXCEPT !.dir = "present"]]
  ELSE [threw |-> TRUE, disk |-> disk]

\* loadScoreConfig(): [threw, value, disk]
loadScoreConfig(disk) ==
  LET dir == ensureDataDir(disk)
  IN IF dir.threw THEN [threw |-> TRUE, value |-> NotLoaded, disk |-> dir.disk]
     ELSE IF dir.disk.file = FileAbsent
       THEN [threw |-> FALSE, value |-> normalizeScoreConfig(DEFAULT_SCORE_CONFIG),
             disk |-> dir.disk]
     ELSE IF "json" \in DOMAIN dir.disk.file
       THEN [threw |-> FALSE, value |-> normalizeScoreConfig(dir.disk.file.json),
             disk |-> dir.disk]
     ELSE [threw |-> FALSE, value |-> normalizeScoreConfig(DEFAULT_SCORE_CONFIG),
           disk |-> dir.disk]

\* JSON.parse(JSON.stringify(normalized)): a NaN penalty is written null and
\* an undefined one is left out; every other value of a configuration reads
\* back as written
stringified(cfg) ==
  [cfg EXCEPT !.kpis =
     [k \in DOMAIN cfg.kpis |->
        IF IsObject(cfg.kpis[k])
          THEN [sv \in {x \in DOMAIN cfg.kpis[k] : cfg.kpis[k][x] # Undefined} |->
                  IF cfg.kpis[k][sv] = NaN THEN JsNull ELSE cfg.kpis[k][sv]]
          ELSE cfg.kpis[k]]]

\* saveScoreConfig(nextConfig): [threw, value, disk].  written tells whether
\* writeFileSync returned; when it threw, truncated tells whether it had
\* already emptied the file.
saveScoreConfig(nextConfig, disk, written, truncated) ==
  LET dir == ensureDataDir(disk)
      normalizedConfig == normalizeScoreConfig(nextConfig)
  IN IF dir.threw THEN [threw |-> TRUE, value |-> NotLoaded, disk |-> dir.disk]
     ELSE IF written
       THEN [threw |-> FALSE, value |-> normalizedConfig,
             disk |-> [dir.disk EXCEPT !.file = JsonFile(stringified(normalizedConfig))]]
     ELSE [threw |-> TRUE, value |-> NotLoaded,
           disk |-> IF truncated THEN [dir.disk EXCEPT !.file = Malformed] ELSE dir.disk]

\* the handler with the assignment made before the file is written; C27 tells
\* it from postScoreConfig
postScoreConfig_AssignFirst(current, body, disk, written, truncated) ==
  LET payload == IF Truthy(body) THEN body ELSE EmptyObject
      incoming == IF IsObject(payload) /\ "config" \in DOMAIN payload
                    THEN payload.config ELSE payload
      saved == saveScoreConfig(incoming, disk, written, truncated)
  IN [scoreConfig |-> normalizeScoreConfig(incoming), disk |-> saved.disk,
      status |-> IF saved.threw THEN "error" ELSE "ok"]

\* POST /api/admin/score-config: payload = req.body || {}, incoming =
\* payload.config ?? payload, scoreConfig = saveScoreConfig(incoming).  No body
\* of the model has a config field holding null.
postScoreConfig(current, body, disk, written, truncated) ==
  LET payload == IF Truthy(body) THEN body ELSE EmptyObject
      incoming == IF IsObject(payload) /\ "config" \in DOMAIN payload
                    THEN payload.config ELSE payload
      saved == saveScoreConfig(incoming, disk, written, truncated)
  IN IF saved.threw
       THEN [scoreConfig |-> current, disk |-> saved.disk, status |-> "error"]
       ELSE [scoreConfig |-> saved.value, disk |-> saved.disk, status |-> "ok"]

(***************************************************************************)
(* SpecServer: the server loads the configuration once, then answers admin *)
(* requests that replace it and summary requests that use it.              *)
(***************************************************************************)
MaxPosts == 2

ConfigValues ==
  {EmptyObject, PenaltiesConfig, CustomKpiConfig, NonObject(TRUE), [kpis |-> NonObject(FALSE)]}

DiskStates ==
  {[dir |-> "present", file |-> f] :
     f \in {FileAbsent, Unreadable, Malformed} \cup {JsonFile(v) : v \in ConfigValues}}
    \cup {[dir |-> d, file |-> FileAbsent] : d \in {"absent", "uncreatable"}}

PostBodies ==
  {NonObject(FALSE), EmptyObject, PenaltiesConfig, NonObject(TRUE),
   [config |-> CustomKpiConfig], [config |-> NonObject(TRUE)]}

ServerSlots ==
  << withId(slotOf("LIVING_FLOOR", "Living - Piso", "", "HIGH", "FLOOR_DAMAGE",
                   "LIVING", "Living"), 1),
     withId(slotOf("FOO_BAR", "", "", "low", "X", "", ""), 2) >>

InitServer ==
  /\ scoreConfig = NotLoaded
  /\ slots = ServerSlots
  /\ findings = <<>>
  /\ summary = NoResult
  /\ configFile \in DiskStates
  /\ reply = NoReply
  /\ ClassifyIdle
  /\ PlanIdle
  /\ NormalizeIdle
  /\ MappingIdle
  /\ CaptureIdle

\* let scoreConfig = loadScoreConfig(), when the module is loaded
LoadConfig ==
  /\ reply.status = "none"
  /\ LET loaded == loadScoreConfig(configFile)
     IN /\ scoreConfig' = loaded.value
        /\ configFile' = loaded.disk
        /\ reply' = [status |-> IF loaded.threw THEN "crashed" ELSE "loaded", n |-> 0]
  /\ UNCHANGED <<slots, findings, summary, classifyVars, planVars, normalizeVars,
                 mappingVars, captureVars>>

PostScoreConfig ==
  /\ reply.status \in {"loaded", "ok", "error"}
  /\ reply.n < MaxPosts
  /\ \E body \in PostBodies, written \in BOOLEAN, truncated \in BOOLEAN :
       LET done == postScoreConfig(scoreConfig, body, configFile, written, truncated)
       IN /\ scoreConfig' = done.scoreConfig
          /\ configFile' = done.disk
          /\ reply' = [status |-> done.status, n |-> reply.n + 1]
  /\ UNCHANGED <<slots, findings, summary, classifyVars, planVars, normalizeVars,
                 mappingVars, captureVars>>

\* GET /api/cases/:caseId/summary: the case is scored under scoreConfig
GetSummary ==
  /\ reply.status \in {"loaded", "ok", "error"}
  /\ ScoreV2_2

NextServer == LoadConfig \/ PostScoreConfig \/ GetSummary

SpecServer == InitServer /\ [][NextServer]_vars

\* C24: loading the persisted configuration never fails: with the file absent,
\* unreadable or malformed loadScoreConfig gives the default configuration, and
\* with a file of valid JSON it gives normalizeScoreConfig of the parsed value.
C24_LoadNeverFails ==
  (reply.status # "none" /\ reply.n = 0) =>
    /\ reply.status = "loaded"
    /\ scoreConfig = (IF "json" \in DOMAIN configFile.file
                        THEN normalizeScoreConfig(configFile.file.json)
                        ELSE DEFAULT_SCORE_CONFIG)

NullDate == 0
NoRow == [missing |-> TRUE]

\* prisma.<table>.findUnique({ where: { <key> } })
findUnique(table, key) == IF key \in DOMAIN table THEN table[key] ELSE NoRow

isExpired(tokenRow, nowMs) ==
  IF tokenRow = NoRow THEN TRUE
  ELSE IF tokenRow.revokedAt # NullDate THEN TRUE
  ELSE IF tokenRow.expiresAt = NullDate THEN TRUE
  ELSE tokenRow.expiresAt <= nowMs

requireCaptureToken(tokens, token, nowMs) ==
  LET row == findUnique(tokens, token)
  IN IF isExpired(row, nowMs) THEN NoRow ELSE row

\* prisma.slot.findMany({ where: { caseId }, orderBy: { orderIndex: 'asc' } })
RECURSIVE sortedByOrderIndex(_, _)
sortedByOrderIndex(table, ids) ==
  IF ids = {} THEN <<>>
  ELSE LET first == CHOOSE i \in ids : \A j \in ids : table[i].orderIndex <= table[j].orderIndex
       IN <<table[first]>> \o sortedByOrderIndex(table, ids \ {first})

findMany(table, caseId) ==
  sortedByOrderIndex(table, {i \in DOMAIN table : table[i].caseId = caseId})

\* slots.find(s => String(s.status || '').toUpperCase() === status), NoRow for undefined
findByStatus(ss, status) ==
  IF \E i \in 1..Len(ss) : toUpperCase(ss[i].status) = status
    THEN ss[CHOOSE i \in 1..Len(ss) :
              /\ toUpperCase(ss[i].status) = status
              /\ \A j \in 1..(i - 1) : toUpperCase(ss[j].status) # status]
    ELSE NoRow

\* only PENDING slots offered; C29 tells it from pickNextSlot
pickNextSlot_PendingOnly(ss) == findByStatus(ss, "PENDING")

pickNextSlot(ss) ==
  LET pending == findByStatus(ss, "PENDING")
  IN IF pending # NoRow THEN pending ELSE findByStatus(ss, "REJECTED")

\* the test that answers SLOT_NOT_FOUND without the case compared; C28 tells
\* it from slotNotFound
slotNotFound_AnyCase(slot, t) == slot = NoRow

\* !slot || slot.caseId !== t.caseId
slotNotFound(slot, t) == slot = NoRow \/ slot.caseId # t.caseId

\* the blur check and analyzeImageBufferV1: analysis.problem of an image whose
\* Laplacian variance, size and mean brightness are given (confidence in
\* hundredths)
analysisProblem(image) ==
  IF image.variance < 60
    THEN [ code |-> "PHOTO_TOO_BLURRY", severity |-> "high", confidence |-> 85,
           message |-> "La foto est@ borrosa. Ac&rcate, enfoca y vuelve a capturar." ]
  ELSE IF image.width < 800 \/ image.height < 600
    THEN [ code |-> "PHOTO_TOO_SMALL", severity |-> "medium", confidence |-> 95,
           message |-> "La imagen es demasiado peque~a. Se recomienda una resoluci@n m!nima de 800x600 p!xeles." ]
  ELSE IF image.mean < 35
    THEN [ code |-> "PHOTO_TOO_DARK", severity |-> "medium", confidence |-> 90,
           message |-> "La imagen est@ muy oscura. Enciende luces o usa flash." ]
  ELSE [ code |-> "OK", severity |-> "low", confidence |-> 90, message |-> "Imagen v@lida." ]

\* nextStatus
nextStatus(problem) ==
  IF toUpperCase(problem.code) \notin REPEAT_CODES THEN "ANALYZED" ELSE "REJECTED"

\* the photo row created and the slot left as it was; C30 tells it from transaction
transaction_PhotoOnly(tables, req, nowMs) ==
  [tables EXCEPT !.photo = (req.photoId :> [id |-> req.photoId, slotId |-> req.slotId,
                                             caseId |-> req.caseId]) @@ @]

\* prisma.$transaction: tx.photo.create, then tx.slot.update
transaction(tables, req, nowMs) ==
  [tables EXCEPT
     !.photo = (req.photoId :> [id |-> req.photoId, slotId |-> req.slotId,
                                caseId |-> req.caseId]) @@ @,
     !.slot[req.slotId] =
        [@ EXCEPT !.status = nextStatus(req.problem),
                  !.photoId = req.photoId,
                  !.analysisCode = req.problem.code,
                  !.analysisSeverity = req.problem.severity,
                  !.analysisConfidence = req.problem.confidence,
                  !.analysisMessage = req.problem.message,
                  !.analyzedAt = nowMs]]

(***************************************************************************)
(* SpecCapture: two cases, the first with two slots and the second with    *)
(* one, every slot PENDING as case creation leaves it; five tokens (two    *)
(* good ones, one per case, one revoked, one without expiry, one expired   *)
(* from the start) and a token no row holds.  Up to MaxCaptures requests   *)
(* are made, while the clock runs up to MaxClock and past the expiry of    *)
(* the first case's token.                                                 *)
(***************************************************************************)
MaxCaptures == 2
MaxClock == 3

slotRow(id, caseId, orderIndex, slotCode) ==
  [ id |-> id, caseId |-> caseId, orderIndex |-> orderIndex, slotCode |-> slotCode,
    status |-> "PENDING", photoId |-> "", analysisCode |-> "", analysisSeverity |-> "",
    analysisConfidence |-> 0, analysisMessage |-> "", analyzedAt |-> NullDate ]

tokenRow(token, caseId, expiresAt, revokedAt) ==
  [token |-> token, caseId |-> caseId, expiresAt |-> expiresAt, revokedAt |-> revokedAt]

CaptureDb ==
  [ captureToken |->
      ("tok-a" :> tokenRow("tok-a", "case-1", 3, NullDate))
      @@ ("tok-b" :> tokenRow("tok-b", "case-2", 9, NullDate))
      @@ ("tok-revoked" :> tokenRow("tok-revoked", "case-1", 9, 1))
      @@ ("tok-no-expiry" :> tokenRow("tok-no-expiry", "case-1", NullDate, NullDate))
      @@ ("tok-expired" :> tokenRow("tok-expired", "case-1", 1, NullDate)),
    slot |->
      ("slot-2" :> slotRow("slot-2", "case-1", 2, "LIVING_FLOOR"))
      @@ ("slot-1" :> slotRow("slot-1", "case-1", 1, "ELECTRICAL_PANEL"))
      @@ ("slot-3" :> slotRow("slot-3", "case-2", 1, "ELECTRICAL_PANEL")),
    photo |-> <<>> ]

CaptureTokens == {"tok-a", "tok-b", "tok-revoked", "tok-no-expiry", "tok-expired", "tok-unknown"}
CaptureSlotIds == {"slot-1", "slot-2", "slot-3", "slot-9"}

imageOf(variance, width, height, mean) ==
  [variance |-> variance, width |-> width, height |-> height, mean |-> mean]

\* what req.file() yields: no part, a part under another field name, a part
\* of an unsupported type, or an image
Uploads ==
  { [part |-> "none"], [part |-> "other-field"], [part |-> "unsupported"] }
  \cup { [part |-> "photo", image |-> i] :
           i \in { imageOf(10, 1024, 768, 120), imageOf(100, 640, 480, 120),
                   imageOf(100, 1024, 768, 20), imageOf(100, 1024, 768, 120) } }

NoProblem == [code |-> "", severity |-> "", confidence |-> 0, message |-> ""]

newRequest(kind, token, slotId) ==
  [ kind |-> kind, token |-> token, slotId |-> slotId, pc |-> "token",
    caseId |-> "", photoId |-> "", problem |-> NoProblem,
    reply |-> "", nextSlotId |-> "" ]

idOrNull(row) == IF row = NoRow THEN "" ELSE row.id

InitCapture ==
  /\ db = CaptureDb
  /\ reqs = <<>>
  /\ clock = 1
  /\ scoreConfig = EmptyObject
  /\ slots = <<>>
  /\ findings = <<>>
  /\ summary = NoResult
  /\ ClassifyIdle
  /\ PlanIdle
  /\ NormalizeIdle
  /\ MappingIdle
  /\ ServerIdle

outsideCapture == <<scoringVars, classifyVars, planVars, normalizeVars, mappingVars, serverVars>>

\* POST /api/capture/:token/slots/:slotId/capture arrives
StartCapture ==
  /\ Len(reqs) < MaxCaptures
  /\ \E token \in CaptureTokens, slotId \in CaptureSlotIds :
       reqs' = Append(reqs, newRequest("capture", token, slotId))
  /\ UNCHANGED <<db, clock, outsideCapture>>

\* await requireCaptureToken(prisma, token)
CheckToken(r) ==
  /\ reqs[r].pc = "token"
  /\ reqs[r].kind = "capture"
  /\ LET t == requireCaptureToken(db.captureToken, reqs[r].token, clock)
     IN reqs' = [reqs EXCEPT ![r] =
                   IF t = NoRow
                     THEN [@ EXCEPT !.pc = "done", !.reply = "INVALID_TOKEN"]
                     ELSE [@ EXCEPT !.pc = "slot", !.caseId = t.caseId]]
  /\ UNCHANGED <<db, clock, outsideCapture>>

\* await prisma.slot.findUnique({ where: { id: slotId } })
FindSlot(r) ==
  /\ reqs[r].pc = "slot"
  /\ LET slot == findUnique(db.slot, reqs[r].slotId)
     IN reqs' = [reqs EXCEPT ![r] =
                   IF slotNotFound(slot, [caseId |-> reqs[r].caseId])
                     THEN [@ EXCEPT !.pc = "done", !.reply = "SLOT_NOT_FOUND"]
                     ELSE [@ EXCEPT !.pc = "file", !.caseId = slot.caseId]]
  /\ UNCHANGED <<db, clock, outsideCapture>>

\* req.file(), the checks on the part, the blur check or analyzeImageBufferV1,
\* storage.saveImageBuffer (whose id names the photo)
ReadFile(r) ==
  /\ reqs[r].pc = "file"
  /\ \E upload \in Uploads :
       reqs' = [reqs EXCEPT ![r] =
                  CASE upload.part = "none" -> [@ EXCEPT !.pc = "done", !.reply = "NO_FILE"]
                    [] upload.part = "other-field" -> [@ EXCEPT !.pc = "done", !.reply = "INVALID_FIELD"]
                    [] upload.part = "unsupported" -> [@ EXCEPT !.pc = "done", !.reply = "UNSUPPORTED_TYPE"]
                    [] upload.part = "photo" ->
                         [@ EXCEPT !.pc = "tx", !.problem = analysisProblem(upload.image),
                                   !.photoId = "photo-" \o ToString(r)]]
  /\ UNCHANGED <<db, clock, outsideCapture>>

\* await prisma.$transaction(...): committed, or rolled back and the request
\* answered with the error
Commit(r) ==
  /\ reqs[r].pc = "tx"
  /\ \/ /\ db' = transaction(db, reqs[r], clock)
        /\ reqs' = [reqs EXCEPT ![r].pc = "next"]
     \/ /\ db' = db
        /\ reqs' = [reqs EXCEPT ![r].pc = "done", ![r].reply = "ERROR"]
  /\ UNCHANGED <<clock, outsideCapture>>

\* await prisma.slot.findMany(...), pickNextSlot, reply.send
Respond(r) ==
  /\ reqs[r].pc = "next"
  /\ reqs' = [reqs EXCEPT ![r].pc = "done", ![r].reply = "ok",
                          ![r].nextSlotId = idOrNull(pickNextSlot(findMany(db.slot, reqs[r].caseId)))]
  /\ UNCHANGED <<db, clock, outsideCapture>>

\* GET /api/capture/:token/next
GetNext ==
  /\ Len(reqs) < MaxCaptures
  /\ \E token \in CaptureTokens :
       LET t == requireCaptureToken(db.captureToken, token, clock)
           req == newRequest("next", token, "")
       IN reqs' = Append(reqs,
                    IF t = NoRow
                      THEN [req EXCEPT !.pc = "done", !.reply = "INVALID_TOKEN"]
                      ELSE [req EXCEPT !.pc = "done", !.reply = "ok", !.caseId = t.caseId,
                                       !.nextSlotId = idOrNull(pickNextSlot(findMany(db.slot, t.caseId)))])
  /\ UNCHANGED <<db, clock, outsideCapture>>

\* Date.now() moves on
Tick ==
  /\ clock < MaxClock
  /\ clock' = clock + 1
  /\ UNCHANGED <<db, reqs, outsideCapture>>

NextCapture ==
  \/ StartCapture
  \/ GetNext
  \/ Tick
  \/ \E r \in 1..Len(reqs) : CheckToken(r)
  \/ \E r \in 1..Len(reqs) : FindSlot(r)
  \/ \E r \in 1..Len(reqs) : ReadFile(r)
  \/ \E r \in 1..Len(reqs) : Commit(r)
  \/ \E r \in 1..Len(reqs) : Respond(r)

SpecCapture == InitCapture /\ [][NextCapture]_vars

\* the token names no row, or a row revoked, without expiry or expired by now
TokenRefused(token) ==
  \/ token \notin DOMAIN db.captureToken
  \/ db.captureToken[token].revokedAt # NullDate
  \/ db.captureToken[token].expiresAt = NullDate
  \/ db.captureToken[token].expiresAt <= clock

\* the slot id names no row, or a slot of another case than the token's
SlotRefused(token, slotId) ==
  \/ slotId \notin DOMAIN db.slot
  \/ db.slot[slotId].caseId # db.captureToken[token].caseId

Answers(r, error) ==
  /\ reqs'[r].pc = "done"
  /\ reqs'[r].reply = error
  /\ reqs'[r].photoId = ""
  /\ db' = db

\* C28: a capture request whose token is unknown, revoked, without expiry or
\* expired is answered INVALID_TOKEN, one whose slot does not exist or is of
\* another case than the token's is answered SLOT_NOT_FOUND, and both leave
\* every table as it was; an answered request does nothing more; whatever
\* changes the tables is the transaction of a request on a slot of its own
\* token's case, and changes that slot and its new photo only
C28_RefusedCapturesWriteNothing ==
  [][ /\ \A r \in 1..Len(reqs) :
           /\ (reqs[r].pc = "token" /\ reqs'[r] # reqs[r] /\ TokenRefused(reqs[r].token))
                => Answers(r, "INVALID_TOKEN")
           /\ (reqs[r].pc = "slot" /\ reqs'[r] # reqs[r]
                 /\ SlotRefused(reqs[r].token, reqs[r].slotId))
                => Answers(r, "SLOT_NOT_FOUND")
           /\ reqs[r].pc = "done" => reqs'[r] = reqs[r]
      /\ db' # db =>
           \E r \in 1..Len(reqs) :
             /\ reqs[r].pc = "tx" /\ reqs'[r].pc = "next"
             /\ ~SlotRefused(reqs[r].token, reqs[r].slotId)
             /\ db'.captureToken = db.captureToken
             /\ \A s \in DOMAIN db.slot : s # reqs[r].slotId => db'.slot[s] = db.slot[s]
             /\ \A p \in DOMAIN db.photo : db'.photo[p] = db.photo[p]
             /\ DOMAIN db'.photo = DOMAIN db.photo \cup {reqs[r].photoId}
    ]_vars

\* the first case's token used after it expired and the second case's token
\* used on a slot of the first case, both refused, while a capture of the
\* second case's own slot went through
C28_Witness ==
  /\ Len(reqs) = 2
  /\ reqs[1].token = "tok-b" /\ reqs[1].slotId = "slot-1" /\ reqs[1].reply = "SLOT_NOT_FOUND"
  /\ reqs[2].token = "tok-a" /\ reqs[2].kind = "capture" /\ reqs[2].reply = "INVALID_TOKEN"
  /\ db = CaptureDb

\* the id of the slot the flow is to offer next in a case: the PENDING slot
\* of least orderIndex, the REJECTED one of least orderIndex when none is
\* PENDING, "" when none is either
LeastOf(ids) ==
  (CHOOSE i \in ids : \A j \in ids : db.slot[i].orderIndex <= db.slot[j].orderIndex)

SlotToOffer(caseId) ==
  LET pending == {i \in DOMAIN db.slot : db.slot[i].caseId = caseId /\ db.slot[i].status = "PENDING"}
      rejected == {i \in DOMAIN db.slot : db.slot[i].caseId = caseId /\ db.slot[i].status = "REJECTED"}
  IN IF pending # {} THEN LeastOf(pending)
     ELSE IF rejected # {} THEN LeastOf(rejected)
     ELSE ""

\* C29: whenever a capture or a next-slot request is answered ok, the slot it
\* names as next is the first PENDING slot of the case in order, the first
\* REJECTED one when none is PENDING, and none exactly when no slot of the
\* case is PENDING or REJECTED
C29_NextSlotSelection ==
  [][ \A r \in 1..Len(reqs') :
        (reqs'[r].reply = "ok" /\ (r > Len(reqs) \/ reqs[r].pc = "next"))
          => reqs'[r].nextSlotId = SlotToOffer(reqs'[r].caseId)
    ]_vars

\* a REJECTED slot earlier in order passed over for a PENDING one
C29_Witness ==
  \E r \in 1..Len(reqs) :
    /\ reqs[r].reply = "ok" /\ reqs[r].caseId = "case-1"
    /\ reqs[r].nextSlotId = "slot-2"
    /\ db.slot["slot-1"].status = "REJECTED"
    /\ db.slot["slot-2"].status = "PENDING"

\* a REJECTED slot offered again once nothing is PENDING
C29_WitnessRejectedAgain ==
  \E r \in 1..Len(reqs) :
    /\ reqs[r].reply = "ok" /\ reqs[r].caseId = "case-1"
    /\ reqs[r].nextSlotId = "slot-1"
    /\ db.slot["slot-1"].status = "REJECTED"
    /\ db.slot["slot-2"].status = "ANALYZED"

\* the flow complete
C29_WitnessComplete ==
  \E r \in 1..Len(reqs) :
    /\ reqs[r].reply = "ok" /\ reqs[r].caseId = "case-2"
    /\ reqs[r].nextSlotId = ""
    /\ db.slot["slot-3"].status = "ANALYZED"

\* the request's transaction has committed
Committed(r) ==
  /\ reqs[r].kind = "capture"
  /\ reqs[r].pc = "next" \/ (reqs[r].pc = "done" /\ reqs[r].reply = "ok")

Untouched(slot) ==
  /\ slot.status = "PENDING" /\ slot.photoId = ""
  /\ slot.analysisCode = "" /\ slot.analysisSeverity = "" /\ slot.analysisMessage = ""

WrittenBy(slot, r) ==
  /\ Committed(r)
  /\ reqs[r].slotId = slot.id
  /\ slot.photoId = reqs[r].photoId
  /\ slot.analysisCode = reqs[r].problem.code
  /\ slot.analysisSeverity = reqs[r].problem.severity
  /\ slot.analysisMessage = reqs[r].problem.message
  /\ slot.status = (IF reqs[r].problem.code \in REPEAT_CODES THEN "REJECTED" ELSE "ANALYZED")

\* C30: in every state of every interleaving of capture requests a slot is as
\* case creation left it or holds the photoId, status and analysis code,
\* severity and message of one committed capture of that slot, REJECTED when
\* that capture's code is a repeat code and ANALYZED otherwise; the photo it
\* names exists and names the slot; every photo is of a committed capture and
\* its slot has been updated, and every committed capture has its photo
C30_SlotsOfOneCapture ==
  /\ \A s \in DOMAIN db.slot :
       \/ Untouched(db.slot[s])
       \/ /\ \E r \in 1..Len(reqs) : WrittenBy(db.slot[s], r)
          /\ db.slot[s].photoId \in DOMAIN db.photo
          /\ db.photo[db.slot[s].photoId].slotId = s
  /\ \A p \in DOMAIN db.photo :
       /\ \E r \in 1..Len(reqs) : Committed(r) /\ reqs[r].photoId = p
       /\ ~Untouched(db.slot[db.photo[p].slotId])
  /\ \A r \in 1..Len(reqs) : Committed(r) => reqs[r].photoId \in DOMAIN db.photo

\* two captures of one slot overlapping, the one that began first committing
\* last: the slot holds the first one's photo and analysis, both photos exist
C30_Witness ==
  /\ Len(reqs) = 2
  /\ reqs[1].slotId = "slot-1" /\ reqs[2].slotId = "slot-1"
  /\ Committed(1) /\ Committed(2)
  /\ reqs[1].problem.code = "OK" /\ reqs[2].problem.code = "PHOTO_TOO_DARK"
  /\ db.slot["slot-1"].photoId = "photo-1"
  /\ db.slot["slot-1"].status = "ANALYZED"
  /\ DOMAIN db.photo = {"photo-1", "photo-2"}

(***************************************************************************)
(* SpecNormalize: normalizeScoreConfig is called on a parsed input, then   *)
(* on its own result (saveScoreConfig followed by computeScoringByKpi).    *)
(* scoreConfig is the caller's object.                                     *)
(***************************************************************************)
MaxNormalizeCalls == 2

\* the objects {}, {name: v} for v in values
OptionalField(name, values) == {EmptyObject} \cup {name :> v : v \in values}

KpisInputs ==
  { NonObject(TRUE),
    [PISOS |-> [low |-> Num(-10), medium |-> Num(120), high |-> NumStr(45)]],
    [PISOS |-> NonObject(TRUE),
     HUMEDAD |-> [low |-> Str, medium |-> JsNull],
     CUSTOM |-> [high |-> Str]] }

MessagesInputs ==
  { NonObject(FALSE),
    [PISOS |-> [low |-> "Piso con desgaste menor.", medium |-> ""]] }

RecommendationsInputs == { [GREEN |-> "Sin observaciones."] }

BadgeInputs ==
  { NonObject(TRUE),
    [yellowFrom |-> Num(90), greenFrom |-> Num(50)],
    [yellowFrom |-> NumStr(50), greenFrom |-> Str],
    [yellowFrom |-> Num(-5), greenFrom |-> Num(150)] }

SlotKpiMapInputs ==
  { NonObject(FALSE),
    [foo_bar |-> "humedad", BATHROOM_1_CEILING |-> "PISOS"],
    [Living_Floor |-> "", KITCHEN_WINDOW |-> "custom"] }

NormalizeInputs ==
  { NonObject(FALSE), NonObject(TRUE), DEFAULT_SCORE_CONFIG }
    \cup { k @@ ms @@ r @@ b @@ mp :
             k \in OptionalField("kpis", KpisInputs),
             ms \in OptionalField("messages", MessagesInputs),
             r \in OptionalField("recommendations", RecommendationsInputs),
             b \in OptionalField("badge", BadgeInputs),
             mp \in OptionalField("slotKpiMap", SlotKpiMapInputs) }

InitNormalize ==
  /\ scoreConfig \in NormalizeInputs
  /\ slots = <<>>
  /\ findings = <<>>
  /\ summary = NoResult
  /\ NormalizeIdle
  /\ ClassifyIdle
  /\ PlanIdle
  /\ MappingIdle
  /\ ServerIdle
  /\ CaptureIdle

Normalize ==
  /\ normCalls = 0
  /\ normalized' = normalizeScoreConfig(scoreConfig)
  /\ scoreConfig' = configAfterNormalize(scoreConfig)
  /\ normCalls' = 1
  /\ UNCHANGED <<slots, findings, summary, classifyVars, planVars, mappingVars, serverVars, captureVars>>

NormalizeAgain ==
  /\ normCalls \in 1..(MaxNormalizeCalls - 1)
  /\ normalized' = normalizeScoreConfig(normalized)
  /\ normCalls' = normCalls + 1
  /\ UNCHANGED <<scoringVars, classifyVars, planVars, mappingVars, serverVars, captureVars>>

NextNormalize == Normalize \/ NormalizeAgain

SpecNormalize == InitNormalize /\ [][NextNormalize]_vars

(***************************************************************************)
(* Claims about normalizeScoreConfig (C12 .. C16), under SpecNormalize     *)
(***************************************************************************)
DefaultKpiKeys ==
  {"MUROS_PINTURA", "HUMEDAD", "PISOS", "SANITARIOS", "ELECTRICIDAD",
   "VENTANAS_CERRAMIENTOS", "PUERTAS_HERRAJES", "MOBILIARIO_FIJO"}

ThreeSeverities == {"low", "medium", "high"}

C14_NormalizedWithinRanges ==
  normCalls >= 1 =>
    /\ \A k \in DefaultKpiKeys : \A sev \in ThreeSeverities :
         normalized.kpis[k][sev].t = "num" /\ normalized.kpis[k][sev].v >= 0
    /\ normalized.badge.yellowFrom.t = "num"
    /\ normalized.badge.greenFrom.t = "num"
    /\ 0 <= normalized.badge.yellowFrom.v
    /\ normalized.badge.yellowFrom.v <= normalized.badge.greenFrom.v
    /\ normalized.badge.greenFrom.v <= 100

\* the slotKpiMap the caller supplied, empty when there is none to use
UserMap ==
  IF IsObject(scoreConfig) /\ "slotKpiMap" \in DOMAIN scoreConfig
     /\ IsObject(scoreConfig.slotKpiMap)
    THEN scoreConfig.slotKpiMap ELSE EmptyObject

\* C15: in the normalized slotKpiMap the user's entries lie over the built-in
\* ones and remove none: every built-in slot code is a key, a built-in code the
\* user does not name keeps its built-in KPI, a code the user names (in any
\* letter case) has the user's KPI, and every key is upper-case.
C15_UserEntriesOverDefaults ==
  normCalls >= 1 =>
    /\ DOMAIN DEFAULT_slotKpiMap \subseteq DOMAIN normalized.slotKpiMap
    /\ \A c \in DOMAIN DEFAULT_slotKpiMap :
         (\A u \in DOMAIN UserMap : toUpperCase(u) # c)
           => normalized.slotKpiMap[c] = DEFAULT_slotKpiMap[c]
    /\ \A u \in DOMAIN UserMap :
         /\ toUpperCase(u) \in DOMAIN normalized.slotKpiMap
         /\ normalized.slotKpiMap[toUpperCase(u)] = toUpperCase(UserMap[u])
    /\ \A K \in DOMAIN normalized.slotKpiMap : toUpperCase(K) = K

C15_Witness ==
  /\ normCalls = 1
  /\ UserMap = [foo_bar |-> "humedad", BATHROOM_1_CEILING |-> "PISOS"]
  /\ normalized.slotKpiMap["FOO_BAR"] = "HUMEDAD"
  /\ normalized.slotKpiMap["BATHROOM_1_CEILING"] = "PISOS"
  /\ normalized.slotKpiMap["BATHROOM_1_SHOWER"] = DEFAULT_slotKpiMap["BATHROOM_1_SHOWER"]
  /\ "foo_bar" \notin DOMAIN normalized.slotKpiMap

\* C16: normalizeScoreConfig(null), normalizeScoreConfig({}) and
\* normalizeScoreConfig(DEFAULT_SCORE_CONFIG) are equal to each other and to
\* the hard-coded default configuration: the full KPI set, the default slot to
\* KPI map, the default messages, the thresholds 60 and 85.
C16_DefaultsFromNothing ==
  (normCalls >= 1 /\ scoreConfig \in {NonObject(FALSE), EmptyObject, DEFAULT_SCORE_CONFIG}) =>
    /\ normalized = DEFAULT_SCORE_CONFIG
    /\ normalized = normalizeScoreConfig(NonObject(FALSE))
    /\ normalized = normalizeScoreConfig(EmptyObject)
    /\ normalized = normalizeScoreConfig(DEFAULT_SCORE_CONFIG)
    /\ DOMAIN normalized.kpis = DefaultKpiKeys
    /\ DOMAIN normalized.messages = DefaultKpiKeys
    /\ normalized.badge = [yellowFrom |-> Num(60), greenFrom |-> Num(85)]

C16_Witness ==
  /\ normCalls = 1
  /\ scoreConfig = EmptyObject
  /\ normalized = DEFAULT_SCORE_CONFIG

(***************************************************************************)
(* SpecClassify: one call of classifyKpiFromSlot, either with the map the  *)
(* caller holds (a direct call) or, as computeScoringByKpi does, with the  *)
(* slotKpiMap of the normalized configuration built from that map.         *)
(***************************************************************************)
ClassifyCodes ==
  {"", "FOO_BAR", "foo_bar", "BATHROOM_1_CEILING", "bathroom_1_ceiling",
   "LIVING_FLOOR", "KITCHEN_WINDOW"}
ClassifyTitles ==
  {"", "ventana rota", "Humedad en muro", "Ba~o principal - Cielo",
   "Puerta del closet", "Tablero el&ctrico"}
ClassifyMessages ==
  {"", "Posible MOHO en el cielo", "Pintura da~ada", "Imagen correcta"}
ClassifyMaps ==
  { NoMap,
    [FOO_BAR |-> "HUMEDAD"],
    [foo_bar |-> "pisos"],
    [BATHROOM_1_CEILING |-> "PISOS", LIVING_FLOOR |-> ""] }

InitClassify ==
  /\ cslot \in [slotCode : ClassifyCodes, title : ClassifyTitles, message : ClassifyMessages]
  /\ cmap \in ClassifyMaps
  /\ ccall = "none"
  /\ ckpi = ""
  /\ ScoringIdle
  /\ PlanIdle
  /\ NormalizeIdle
  /\ MappingIdle
  /\ ServerIdle
  /\ CaptureIdle

\* the map computeScoringByKpi hands to the classifier: cfg.slotKpiMap
ScoringTimeMap(m) == normalizeScoreConfig([slotKpiMap |-> m]).slotKpiMap

ClassifyDirect ==
  /\ ccall = "none"
  /\ ccall' = "direct"
  /\ ckpi' = classifyKpiFromSlot(cslot, cmap)
  /\ UNCHANGED <<cslot, cmap, scoringVars, planVars, normalizeVars, mappingVars, serverVars, captureVars>>

ClassifyAtScoring ==
  /\ ccall = "none"
  /\ ccall' = "scoring"
  /\ ckpi' = classifyKpiFromSlot(cslot, ScoringTimeMap(cmap))
  /\ UNCHANGED <<cslot, cmap, scoringVars, planVars, normalizeVars, mappingVars, serverVars, captureVars>>

NextClassify == ClassifyDirect \/ ClassifyAtScoring

SpecClassify == InitClassify /\ [][NextClassify]_vars

\* the map the classifier was called with
MapUsed == IF ccall = "scoring" THEN ScoringTimeMap(cmap) ELSE cmap
(***************************************************************************)
(* Claims about the classifier (C8, C9, C10), under SpecClassify           *)
(***************************************************************************)
Called == ccall # "none"

\* no override applies: the map used has no non-empty entry for the raw code
NoOverride ==
  Called /\ (cslot.slotCode \notin DOMAIN MapUsed \/ MapUsed[cslot.slotCode] = "")

AllGroups ==
  << [kpi |-> "HUMEDAD", words |-> KW_HUMEDAD],
     [kpi |-> "MUROS_PINTURA", words |-> KW_MUROS_PINTURA],
     [kpi |-> "PISOS", words |-> KW_PISOS],
     [kpi |-> "SANITARIOS", words |-> KW_SANITARIOS],
     [kpi |-> "ELECTRICIDAD", words |-> KW_ELECTRICIDAD],
     [kpi |-> "VENTANAS_CERRAMIENTOS", words |-> KW_VENTANAS_CERRAMIENTOS],
     [kpi |-> "PUERTAS_HERRAJES", words |-> KW_PUERTAS_HERRAJES],
     [kpi |-> "MOBILIARIO_FIJO", words |-> KW_MOBILIARIO_FIJO] >>

\* some keyword of the group occurs in one of the texts
GroupHits(g, texts) ==
  \E w \in {g.words[i] : i \in 1..Len(g.words)} : \E t \in texts : includes(t, w)

\* the KPI of the first group of gs (from position from on) that hits, or ""
FirstHit(gs, from, textsOf(_)) ==
  LET hits == {i \in from..Len(gs) : GroupHits(gs[i], textsOf(i))}
  IN IF hits = {} THEN ""
     ELSE gs[CHOOSE i \in hits : \A j \in hits : i <= j].kpi

SlotConcat == toLowerCase(cslot.slotCode \o cslot.title \o cslot.message)
ConcatOnly(i) == {SlotConcat}
TitleAndCode(i) == {toLowerCase(cslot.title), toLowerCase(cslot.slotCode)}
MessageOnly(i) == {toLowerCase(cslot.message)}

C9_LookupIsUpperCased ==
  ccall = "scoring" =>
    \A K \in DOMAIN MapUsed :
      (toUpperCase(cslot.slotCode) = K /\ MapUsed[K] # "") => ckpi = MapUsed[K]

\* C10: when the map used has a (non-empty) entry for the slot's slotCode,
\* the result is that entry (in upper case, as every KPI key is) whatever
\* the title and message contain.
C10_OverrideBeatsKeywords ==
  (Called /\ ~NoOverride) =>
    LET V == MapUsed[cslot.slotCode]
    IN /\ ckpi = toUpperCase(V)
       /\ (V \in DOMAIN DEFAULT_kpis => ckpi = V)

\* slotKpiMap[FOO_BAR] = HUMEDAD, title "ventana rota": HUMEDAD, not windows
C10_Witness ==
  /\ ccall = "direct"
  /\ cmap = [FOO_BAR |-> "HUMEDAD"]
  /\ cslot.slotCode = "FOO_BAR"
  /\ cslot.title = "ventana rota"
  /\ ckpi = "HUMEDAD"

(***************************************************************************)
(* buildPhotoPlanV1 (server.js).  The instructions text of a planned slot  *)
(* is left out: the classifier reads slotCode, title and message only.     *)
(***************************************************************************)
MaxBathrooms == 3
MaxBedrooms == 4


planSlot(slotCode, title) == [slotCode |-> slotCode, title |-> title, required |-> TRUE]

bathroomSlots(i) ==
  LET label == IF i = 1 THEN "Ba~o principal" ELSE "Ba~o secundario"
      code(suffix) == "BATHROOM_" \o ToString(i) \o suffix
  IN << planSlot(code("_SHOWER"), label \o " - Interior tina / ducha"),
        planSlot(code("_SINK"), label \o " - Lavamanos"),
        planSlot(code("_SINK_PIPES"), label \o " - Ca~er!as lavamanos"),
        planSlot(code("_WC"), label \o " - WC"),
        planSlot(code("_WC_PIPES"), label \o " - Ca~er!as WC"),
        planSlot(code("_CEILING"), label \o " - Cielo"),
        planSlot(code("_OUTLETS"), label \o " - Enchufes") >>

kitchenSlots ==
  << planSlot("KITCHEN_UNDER_SINK", "Cocina - Bajo lavaplatos"),
     planSlot("KITCHEN_SINK_WALL", "Cocina - Muro lavaplatos"),
     planSlot("KITCHEN_OUTLETS", "Cocina - Enchufes"),
     planSlot("KITCHEN_WINDOW", "Cocina - Ventana") >>

livingSlots ==
  << planSlot("LIVING_WALLS", "Living - Muros"),
     planSlot("LIVING_CEILING", "Living - Cielo"),
     planSlot("LIVING_FLOOR", "Living - Piso"),
     planSlot("LIVING_WINDOWS", "Living - Ventanas"),
     planSlot("LIVING_SWITCHES", "Living - Interruptores") >>

bedroomSlots(i) ==
  LET n == ToString(i)
  IN << planSlot("BEDROOM_" \o n \o "_WALLS", "Dormitorio " \o n \o " - Muros"),
        planSlot("BEDROOM_" \o n \o "_FLOOR", "Dormitorio " \o n \o " - Piso"),
        planSlot("BEDROOM_" \o n \o "_WINDOWS", "Dormitorio " \o n \o " - Ventanas") >>

\* for (let i = 1; i <= n; i++) plan.push(...): the slots of rooms 1 .. n
RECURSIVE bathroomsUpTo(_)
bathroomsUpTo(n) == IF n < 1 THEN <<>> ELSE bathroomsUpTo(n - 1) \o bathroomSlots(n)

RECURSIVE bedroomsUpTo(_)
bedroomsUpTo(n) == IF n < 1 THEN <<>> ELSE bedroomsUpTo(n - 1) \o bedroomSlots(n)

\* the slot as the classifier sees it: a planned slot has no message
withMessage(slot, message) ==
  [slotCode |-> slot.slotCode, title |-> slot.title, message |-> message]

buildPhotoPlanV1(input) ==
  LET bathCount == Max(1, IF input.bathroomsCount = 0 THEN 1 ELSE input.bathroomsCount)
      bedCount == Max(0, input.bedroomsCount)
      drafted ==
        bathroomsUpTo(Min(bathCount, 2))
          \o kitchenSlots
          \o livingSlots
          \o bedroomsUpTo(Min(bedCount, 3))
          \o (IF input.hasLaundry
                THEN <<planSlot("LAUNDRY_WALLS_FLOOR", "Loggia - Muros y piso")>>
                ELSE <<>>)
          \o <<planSlot("ELECTRICAL_PANEL", "Tablero el&ctrico")>>
  IN [i \in 1..Len(drafted) |->
        [slotCode |-> drafted[i].slotCode, title |-> drafted[i].title,
         required |-> drafted[i].required,
         kpiKey |-> classifyKpiFromSlot(withMessage(drafted[i], ""), NoMap)]]

(***************************************************************************)
(* SpecPlan: a checklist is built, then one of its slots is classified as  *)
(* computeScoringByKpi classifies it under the default configuration.      *)
(***************************************************************************)
\* cfg.slotKpiMap in computeScoringByKpi under the default configuration
ScoringDefaultMap == normalizeScoreConfig(DEFAULT_SCORE_CONFIG).slotKpiMap

InitPlan ==
  /\ planInput \in [bathroomsCount : 0..MaxBathrooms,
                    bedroomsCount : 0..MaxBedrooms,
                    hasLaundry : BOOLEAN]
  /\ plan = <<>>
  /\ rescored = NotRescored
  /\ ScoringIdle
  /\ ClassifyIdle
  /\ NormalizeIdle
  /\ MappingIdle
  /\ ServerIdle
  /\ CaptureIdle

BuildPlan ==
  /\ plan = <<>>
  /\ plan' = buildPhotoPlanV1(planInput)
  /\ UNCHANGED <<planInput, rescored, scoringVars, classifyVars, normalizeVars, mappingVars, serverVars, captureVars>>

ScoreSlot ==
  /\ plan # <<>>
  /\ \E i \in 1..Len(plan) :
       rescored' =
         [index |-> i,
          kpi |-> classifyKpiFromSlot(withMessage(plan[i], ""), ScoringDefaultMap)]
  /\ UNCHANGED <<planInput, plan, scoringVars, classifyVars, normalizeVars, mappingVars, serverVars, captureVars>>

NextPlan == BuildPlan \/ ScoreSlot

SpecPlan == InitPlan /\ [][NextPlan]_vars

\* C7 as claimed: for every slot of a built checklist, the kpiKey tagged at
\* build time equals the KPI the scoring engine assigns to the same slotCode
\* and title under the default configuration.
C7_BuildAndScoringAgree ==
  rescored.index # 0 => plan[rescored.index].kpiKey = rescored.kpi
=============================================================================
